---- MODULE Spec2Model ----
(***************************************************************************)
(* Model of the MCP playground core: the MCPClient transport client        *)
(* (src/src/lib/mcp/MCPClient.ts), the AIService orchestrator              *)
(* (src/src/lib/openai/AIService.ts), the session store                    *)
(* (src/src/services/mcpSession.ts) and the chat turns of the App          *)
(* component (App.tsx, ChatInterface.tsx).                                 *)
(*                                                                         *)
(* Text is modelled as a sequence of lexical tokens: punctuation           *)
(* characters ("{", "}", ":", the quote, the newline, ...) and words.      *)
(* A JavaScript value is a record [t |-> <type tag>, v |-> <payload>].     *)
(***************************************************************************)
EXTENDS Integers, Sequences, FiniteSets, TLC

\* ---------------------------------------------------------------- state

VARIABLES
    client,     \* the MCPClient instance: [serverUrl, requestId, apiKey]
    wire,       \* the ids of the requests sent, in the order sent
    outbox,     \* the fetch() call being made, if any: <<call>>
    pending,    \* the requests awaiting their HTTP response
    completed,  \* the operation whose promise has just settled, if any
    service,    \* the AIService instance: [openai, mcpClient, tools]
    chat,       \* the chat() call in progress: its frame and its position
    session,    \* the state of the session store (mcpSession.ts)
    app         \* the App component, and the store operations in progress

\* ------------------------------------------------------------------ text

Quote == "\""
NL == "\n"
SP == " "

\* String.prototype.trim / JSON whitespace
IsWs(tok) == tok \in {SP, NL}

\* String.prototype.includes for a one-token needle
Includes(s, needle) == \E i \in 1..Len(s) : s[i] = needle

\* String.prototype.startsWith for a token-sequence prefix
StartsWith(s, prefix) ==
    /\ Len(s) >= Len(prefix)
    /\ SubSeq(s, 1, Len(prefix)) = prefix

\* ------------------------------------------------------------ JS values

Undefined == [t |-> "undefined", v |-> <<>>]
JNull == [t |-> "null", v |-> <<>>]
JNum(tok) == [t |-> "num", v |-> <<tok>>]
JStr(s) == [t |-> "str", v |-> s]
JArr(items) == [t |-> "arr", v |-> items]
\* an object is its list of <<key, value>> members in insertion order
JObj(members) == [t |-> "obj", v |-> members]

NumTokens == { ToString(n) : n \in 0..9 } \cup {"-32601", "-32603"}

RECURSIVE GetFrom(_, _, _)
GetFrom(members, key, i) ==
    IF i = 0 THEN Undefined
    ELSE IF members[i][1] = key THEN members[i][2]
    ELSE GetFrom(members, key, i - 1)

\* property read obj.key on a non-null value: the last member of that name
\* wins, anything that is not an object has no such property
Get(val, key) ==
    IF val.t = "obj" THEN GetFrom(val.v, key, Len(val.v)) ELSE Undefined

\* JavaScript truthiness (ToBoolean)
Truthy(val) ==
    CASE val.t \in {"undefined", "null"} -> FALSE
      [] val.t = "str" -> val.v # <<>>
      [] val.t = "num" -> val.v # <<"0">>
      [] OTHER -> TRUE

\* ------------------------------------------------------ JSON.stringify

RECURSIVE Stringify(_), StringifyMembers(_, _), StringifyItems(_, _)
Stringify(val) ==
    CASE val.t = "null" -> <<"null">>
      [] val.t = "num" -> val.v
      [] val.t = "str" -> <<Quote>> \o val.v \o <<Quote>>
      [] val.t = "arr" -> <<"[">> \o StringifyItems(val.v, 1) \o <<"]">>
      [] val.t = "obj" -> <<"{">> \o StringifyMembers(val.v, 1) \o <<"}">>

StringifyMembers(members, i) ==
    IF i > Len(members) THEN <<>>
    ELSE (IF i > 1 THEN <<",">> ELSE <<>>)
         \o <<Quote, members[i][1], Quote, ":">>
         \o Stringify(members[i][2])
         \o StringifyMembers(members, i + 1)

StringifyItems(items, i) ==
    IF i > Len(items) THEN <<>>
    ELSE (IF i > 1 THEN <<",">> ELSE <<>>)
         \o Stringify(items[i])
         \o StringifyItems(items, i + 1)

\* ----------------------------------------------------------- JSON.parse

ParseFail == [ok |-> FALSE, val |-> Undefined, next |-> 0]
ParseOk(val, next) == [ok |-> TRUE, val |-> val, next |-> next]

RECURSIVE SkipWs(_, _)
SkipWs(s, i) ==
    IF i <= Len(s) /\ IsWs(s[i]) THEN SkipWs(s, i + 1) ELSE i

Punctuation == {"{", "}", "[", "]", ":", ",", Quote}

\* the characters of a string literal, i being the place after the opening
\* quote; a raw newline inside a literal is a syntax error
RECURSIVE ParseString(_, _, _)
ParseString(s, i, acc) ==
    IF i > Len(s) \/ s[i] = NL THEN ParseFail
    ELSE IF s[i] = Quote THEN ParseOk(JStr(acc), i + 1)
    ELSE ParseString(s, i + 1, Append(acc, s[i]))

\* the text of a key: its tokens joined
RECURSIVE Joined(_, _)
Joined(toks, i) ==
    IF i > Len(toks) THEN "" ELSE toks[i] \o Joined(toks, i + 1)

RECURSIVE ParseValue(_, _), ParseValueAt(_, _), ParseObjectAt(_, _)
RECURSIVE ParseMembers(_, _, _), ParseKeyAt(_, _, _), ParseColon(_, _, _)
RECURSIVE ParseMemberValue(_, _, _, _), ParseMemberEnd(_, _, _, _)
RECURSIVE ParseMemberNext(_, _, _)
RECURSIVE ParseArrayAt(_, _), ParseItems(_, _, _), ParseItemEnd(_, _, _)
RECURSIVE ParseItemNext(_, _, _)

\* a value from place i0 on, after whitespace
ParseValue(s, i0) == ParseValueAt(s, SkipWs(s, i0))

ParseValueAt(s, i) ==
    IF i > Len(s) THEN ParseFail
    ELSE CASE s[i] = Quote -> ParseString(s, i + 1, <<>>)
           [] s[i] = "null" -> ParseOk(JNull, i + 1)
           [] s[i] \in NumTokens -> ParseOk(JNum(s[i]), i + 1)
           [] s[i] = "{" -> ParseObjectAt(s, SkipWs(s, i + 1))
           [] s[i] = "[" -> ParseArrayAt(s, SkipWs(s, i + 1))
           [] OTHER -> ParseFail

\* after "{": the empty object, or members
ParseObjectAt(s, j) ==
    IF j <= Len(s) /\ s[j] = "}" THEN ParseOk(JObj(<<>>), j + 1)
    ELSE ParseKeyAt(s, j, <<>>)

\* members of an object from place i0 (a key is expected there)
ParseMembers(s, i0, acc) == ParseKeyAt(s, SkipWs(s, i0), acc)

ParseKeyAt(s, i, acc) ==
    IF i > Len(s) \/ s[i] # Quote THEN ParseFail
    ELSE ParseColon(s, ParseString(s, i + 1, <<>>), acc)

ParseColon(s, key, acc) ==
    IF ~key.ok THEN ParseFail
    ELSE ParseMemberValue(s, Joined(key.val.v, 1), SkipWs(s, key.next), acc)

ParseMemberValue(s, name, c, acc) ==
    IF c > Len(s) \/ s[c] # ":" THEN ParseFail
    ELSE ParseMemberEnd(s, name, ParseValue(s, c + 1), acc)

ParseMemberEnd(s, name, item, acc) ==
    IF ~item.ok THEN ParseFail
    ELSE ParseMemberNext(s, SkipWs(s, item.next),
                         Append(acc, <<name, item.val>>))

ParseMemberNext(s, e, members) ==
    IF e > Len(s) THEN ParseFail
    ELSE IF s[e] = "}" THEN ParseOk(JObj(members), e + 1)
    ELSE IF s[e] = "," THEN ParseMembers(s, e + 1, members)
    ELSE ParseFail

\* after "[": the empty array, or items
ParseArrayAt(s, j) ==
    IF j <= Len(s) /\ s[j] = "]" THEN ParseOk(JArr(<<>>), j + 1)
    ELSE ParseItems(s, j, <<>>)

ParseItems(s, i0, acc) == ParseItemEnd(s, ParseValue(s, i0), acc)

ParseItemEnd(s, item, acc) ==
    IF ~item.ok THEN ParseFail
    ELSE ParseItemNext(s, SkipWs(s, item.next), Append(acc, item.val))

ParseItemNext(s, e, items) ==
    IF e > Len(s) THEN ParseFail
    ELSE IF s[e] = "]" THEN ParseOk(JArr(items), e + 1)
    ELSE IF s[e] = "," THEN ParseItems(s, e + 1, items)
    ELSE ParseFail

\* nothing but whitespace may follow the value
ParseEnd(s, r) ==
    IF r.ok /\ SkipWs(s, r.next) > Len(s) THEN r ELSE ParseFail

\* JSON.parse(text)
JSONParse(s) == ParseEnd(s, ParseValue(s, 1))

\* ------------------------------------------------------------ outcomes

NoError == [name |-> "", message |-> <<>>]
Return(val) == [kind |-> "return", value |-> val, error |-> NoError]
Throw(name, message) ==
    [kind |-> "throw", value |-> Undefined,
     error |-> [name |-> name, message |-> message]]

\* String(value) as the Error constructor applies it to its argument
ToStr(val) ==
    CASE val.t \in {"str", "num"} -> val.v
      [] val.t = "null" -> <<"null">>
      [] val.t = "undefined" -> <<"undefined">>
      [] val.t = "arr" -> <<>>
      [] OTHER -> <<"[object Object]">>

\* -------------------------------------------------------- HTTP responses

\* fetch() resolved with a response, or rejected (network failure)
HttpResponse(status, ctype, body) ==
    [kind |-> "response", status |-> status, ctype |-> ctype, body |-> body]
FetchRejected ==
    [kind |-> "reject", status |-> 0, ctype |-> <<>>, body |-> <<>>]

\* only a server error (5xx) counted as a failure
OkBelow500(resp) == resp.status \in 200..499

\* Response.ok
ResponseOk(resp) == resp.status \in 200..299

RECURSIVE SplitFrom(_, _, _, _)
SplitFrom(s, sep, i, cur) ==
    IF i > Len(s) THEN <<cur>>
    ELSE IF s[i] = sep THEN <<cur>> \o SplitFrom(s, sep, i + 1, <<>>)
    ELSE SplitFrom(s, sep, i + 1, Append(cur, s[i]))

\* String.prototype.split(sep)
Split(s, sep) == SplitFrom(s, sep, 1, <<>>)

\* String.prototype.trim() yields the empty string
TrimEmpty(s) == \A i \in 1..Len(s) : IsWs(s[i])

DataPrefix == <<"data", ":", SP>>
EventPrefix == <<"event", ":", SP>>
CommentPrefix == <<":">>
IdPrefix == <<"id", ":">>
RetryPrefix == <<"retry", ":">>

\* only the data lines kept, every other line dropped
DataLinesOnly(line) ==
    IF StartsWith(line, DataPrefix)
    THEN SubSeq(line, Len(DataPrefix) + 1, Len(line))
    ELSE <<>>

\* what one line adds to jsonData in the loop of parseSSEResponse
SSELine(line) ==
    IF TrimEmpty(line) \/ StartsWith(line, CommentPrefix) THEN <<>>
    ELSE IF StartsWith(line, DataPrefix)
         THEN SubSeq(line, Len(DataPrefix) + 1, Len(line))
    ELSE IF StartsWith(line, EventPrefix) THEN <<>>
    ELSE IF ~TrimEmpty(line) /\ ~StartsWith(line, IdPrefix)
            /\ ~StartsWith(line, RetryPrefix)
         THEN line
    ELSE <<>>

\* the lines joined last to first
RECURSIVE SSEDataReversed(_, _)
SSEDataReversed(lines, i) ==
    IF i > Len(lines) THEN <<>>
    ELSE SSEDataReversed(lines, i + 1) \o SSELine(lines[i])

RECURSIVE SSEData(_, _)
SSEData(lines, i) ==
    IF i > Len(lines) THEN <<>>
    ELSE SSELine(lines[i]) \o SSEData(lines, i + 1)

\* only a text/event-stream body treated as SSE
IsSSEEventStreamOnly(ctype) == Includes(ctype, "text/event-stream")

\* line 37
IsSSE(ctype) ==
    Includes(ctype, "text/event-stream") \/ Includes(ctype, "text/plain")

parseSSEResponse(resp) ==
    IF ~IsSSE(resp.ctype) THEN resp.body
    ELSE LET jsonData == SSEData(Split(resp.body, NL), 1) IN
         IF jsonData # <<>> THEN jsonData ELSE resp.body

\* ------------------------------------------------------ MCPClient.request

RECURSIVE FirstOf(_, _, _), LastOf(_, _, _)
FirstOf(s, tok, i) ==
    IF i > Len(s) THEN 0
    ELSE IF s[i] = tok THEN i ELSE FirstOf(s, tok, i + 1)
LastOf(s, tok, i) ==
    IF i < 1 THEN 0
    ELSE IF s[i] = tok THEN i ELSE LastOf(s, tok, i - 1)

\* responseText.match(/\{[\s\S]*\}/): from the first "{" to the last "}"
\* after it; the empty sequence stands for no match
JsonMatch(text) ==
    LET a == FirstOf(text, "{", 1)
        b == LastOf(text, "}", Len(text))
    IN IF a > 0 /\ b > a THEN SubSeq(text, a, b) ELSE <<>>

ExcerptLen == 100

\* String.prototype.substring(0, n), a token being as wide as its characters
RECURSIVE Substring(_, _, _)
Substring(s, i, n) ==
    IF i > Len(s) \/ n <= 0 THEN <<>>
    ELSE IF Len(s[i]) <= n
         THEN <<s[i]>> \o Substring(s, i + 1, n - Len(s[i]))
    ELSE <<SubSeq(s[i], 1, n)>>

\* the message of the SyntaxError JSON.parse throws: its wording is the
\* engine's, and an engine may quote the offending text
SyntaxErrorMessage(text, quoting) ==
    IF quoting THEN <<"Unexpected token", SP>> \o text \o <<SP, "is not valid JSON">>
    ELSE <<"JSON.parse: unexpected character">>

\* lines 123-127 tried before lines 119-121: a result wins over an error
ResultBeforeError(data) ==
    IF data.t = "null"
    THEN Throw("TypeError", <<"Cannot read properties of null">>)
    ELSE IF Get(data, "result") # Undefined THEN Return(Get(data, "result"))
    ELSE IF Truthy(Get(data, "error"))
    THEN Throw("Error", <<"MCP server error">>)
    ELSE Throw("Error", <<"No result in MCP response">>)

\* lines 119-121 without lines 123-125: data.result returned unchecked
ResultUnchecked(data) ==
    IF data.t = "null"
    THEN Throw("TypeError", <<"Cannot read properties of null">>)
    ELSE IF Truthy(Get(data, "error"))
    THEN LET message == Get(Get(data, "error"), "message") IN
         Throw("Error", IF Truthy(message) THEN ToStr(message)
                        ELSE <<"MCP server error">>)
    ELSE Return(Get(data, "result"))

\* lines 119-127: the decoded envelope to the result or the error
EnvelopeOutcome(data) ==
    IF data.t = "null"
    THEN Throw("TypeError", <<"Cannot read properties of null">>)
    ELSE IF Truthy(Get(data, "error"))
    THEN LET message == Get(Get(data, "error"), "message") IN
         Throw("Error", IF Truthy(message) THEN ToStr(message)
                        ELSE <<"MCP server error">>)
    ELSE IF Get(data, "result") = Undefined
    THEN Throw("Error", <<"No result in MCP response">>)
    ELSE Return(Get(data, "result"))

Decoded(data) == [ok |-> TRUE, data |-> data, thrown |-> NoError]
Undecoded(name, message) ==
    [ok |-> FALSE, data |-> Undefined,
     thrown |-> [name |-> name, message |-> message]]

\* lines 111-116: the fallback, inner being JSON.parse(jsonMatch[0])
DecodeMatch(text, jsonMatch, inner, quoting) ==
    IF jsonMatch = <<>>
    THEN Undecoded("Error", <<"Failed to parse response as JSON: ">>
                            \o Substring(text, 1, ExcerptLen))
    ELSE IF inner.ok THEN Decoded(inner.val)
    ELSE Undecoded("SyntaxError", SyntaxErrorMessage(jsonMatch, quoting))

\* lines 107-117, direct being JSON.parse(responseText)
DecodeParsed(text, direct, quoting) ==
    IF direct.ok THEN Decoded(direct.val)
    ELSE DecodeMatch(text, JsonMatch(text), JSONParse(JsonMatch(text)), quoting)

\* lines 105-117: JSON.parse, then the brace-delimited fallback
DecodeBody(text, quoting) == DecodeParsed(text, JSONParse(text), quoting)

\* lines 119-127 for a decoded body, the parse error for any other
DecodedOutcome(d) ==
    IF d.ok THEN EnvelopeOutcome(d.data)
    ELSE Throw(d.thrown.name, d.thrown.message)

\* lines 105-127
DecodeOutcome(text, quoting) == DecodedOutcome(DecodeBody(text, quoting))

\* lines 93-131: what request() gives its caller for a reply of the network
RequestOutcome(resp, quoting) ==
    IF resp.kind = "reject" THEN Throw("TypeError", <<"Failed to fetch">>)
    ELSE IF ~ResponseOk(resp)
    THEN Throw("Error", <<"HTTP error! status: ", ToString(resp.status)>>)
    ELSE DecodeOutcome(parseSSEResponse(resp), quoting)

\* ------------------------------------------------- MCPClient operations

Ops == {"initialize", "listTools", "listResources", "fetchResource", "callTool"}

MethodOf(op) ==
    CASE op = "initialize" -> "initialize"
      [] op = "listTools" -> "tools/list"
      [] op = "listResources" -> "resources/list"
      [] op = "fetchResource" -> "resources/read"
      [] op = "callTool" -> "tools/call"

\* if (server) { params.server = server }
WithServer(members, server) ==
    IF Truthy(server) THEN Append(members, <<"server", server>>) ELSE members

InitializeParams ==
    JObj(<< <<"protocolVersion", JStr(<<"2024-11-05">>)>>,
            <<"capabilities", JObj(<<>>)>>,
            <<"clientInfo", JObj(<< <<"name", JStr(<<"mcp-example-react">>)>>,
                                    <<"version", JStr(<<"1.0.0">>)>> >>)>> >>)

\* the params each public operation hands to request(); args holds the
\* operation's arguments [server, uri, name, arguments]
ParamsOf(op, args) ==
    CASE op = "initialize" -> InitializeParams
      [] op \in {"listTools", "listResources"} ->
           JObj(WithServer(<<>>, args.server))
      [] op = "fetchResource" ->
           JObj(WithServer(<< <<"uri", args.uri>> >>, args.server))
      [] op = "callTool" ->
           JObj(WithServer(<< <<"name", args.name>>,
                              <<"arguments", args.arguments>> >>, args.server))

\* constructor(serverUrl, apiKey)
NewClient(serverUrl, apiKey) ==
    [serverUrl |-> serverUrl, requestId |-> 0, apiKey |-> apiKey]

\* return this.requestId++ : the id handed out is the old counter
PostIncrementRequestId(c) ==
    [client |-> [c EXCEPT !.requestId = @ + 1], id |-> c.requestId]

\* the counter advanced twice for one request
DoubleIncrementRequestId(c) ==
    [client |-> [c EXCEPT !.requestId = @ + 2], id |-> c.requestId + 2]

\* the counter advanced when a request completes and not when it starts: the
\* id is one more than the number of requests completed
RequestIdAfterCompletion(c) ==
    [client |-> [c EXCEPT !.requestId = @ + 1],
     id |-> c.requestId + 1 - Cardinality(pending)]

\* return ++this.requestId : the client after the call and the id returned
getNextRequestId(c) ==
    [client |-> [c EXCEPT !.requestId = @ + 1], id |-> c.requestId + 1]

\* lines 89-91 left out: no key header
RequestHeadersWithoutKey(c) == << <<"Content-Type", <<"application/json">> >> >>

\* lines 85-91
RequestHeaders(c) ==
    << <<"Content-Type", <<"application/json">> >> >>
    \o (IF Truthy(c.apiKey) THEN << <<"X-API-KEY", ToStr(c.apiKey)>> >>
        ELSE <<>>)

\* lines 77-82 and 93-97: the fetch() call of request(method, params)
FetchCall(c, id, method, params) ==
    [url |-> c.serverUrl,
     method |-> "POST",
     headers |-> RequestHeaders(c),
     body |-> Stringify(JObj(<< <<"jsonrpc", JStr(<<"2.0">>)>>,
                                <<"id", JNum(ToString(id))>>,
                                <<"method", JStr(<<method>>)>>,
                                <<"params", params>> >>))]

\* only the JSON-RPC code looked for in the message
NotSupportedCodeOnly(message) == Includes(message, "-32601")

\* errorMessage.includes('not available') || .includes('Method')
\*   || .includes('-32601')
NotSupported(message) ==
    \/ Includes(message, "not available")
    \/ Includes(message, "Method")
    \/ Includes(message, "-32601")

EmptyList(op) ==
    IF op = "listTools" THEN JObj(<< <<"tools", JArr(<<>>)>> >>)
    ELSE JObj(<< <<"resources", JArr(<<>>)>> >>)

\* the catch of listTools copied to every operation
DegradeEveryOp(op, out) ==
    IF out.kind = "throw" /\ NotSupported(out.error.message)
    THEN Return(EmptyList(op))
    ELSE out

\* the try/catch of each public operation around its request()
OpOutcome(op, out) ==
    IF op \in {"listTools", "listResources"}
       /\ out.kind = "throw" /\ NotSupported(out.error.message)
    THEN Return(EmptyList(op))
    ELSE out

\* ------------------------------------------------- replies of the server

\* a JSON-RPC envelope with the given id, error and result members
Envelope(idm, errm, resm) ==
    JObj(<< <<"jsonrpc", JStr(<<"2.0">>)>> >> \o idm \o errm \o resm)

RpcError(code, message) ==
    JObj(<< <<"code", JNum(code)>>, <<"message", JStr(message)>> >>)

IdMembers == { <<>>, << <<"id", JNum("1")>> >>, << <<"id", JNum("7")>> >> }

ToolsResult(items) == JObj(<< <<"tools", JArr(items)>> >>)
ScheduleTool == JObj(<< <<"name", JStr(<<"getResourceSchedule">>)>> >>)

ResultMembers ==
    { <<>>,
      << <<"result", JNull>> >>,
      << <<"result", JNum("7")>> >>,
      << <<"result", ToolsResult(<<>>)>> >>,
      << <<"result", ToolsResult(<<ScheduleTool>>)>> >> }

ErrorMembers ==
    { <<>>,
      << <<"error", JNull>> >>,
      << <<"error", RpcError("-32601", <<"Method", SP, "not found">>)>> >>,
      << <<"error", RpcError("-32603", <<"Error", SP, "-32601">>)>> >>,
      << <<"error", RpcError("-32603", <<"Tools", SP, "not available">>)>> >>,
      << <<"error", RpcError("-32601", <<"Internal error">>)>> >>,
      << <<"error", RpcError("-32603", <<>>)>> >>,
      << <<"error", JObj(<< <<"code", JNum("-32601")>> >>)>> >> }

\* every envelope with id 1, and the other ids on a success and an error
Envelopes ==
    { Envelope(<< <<"id", JNum("1")>> >>, e, r) :
        e \in ErrorMembers, r \in ResultMembers }
    \cup { Envelope(i, <<>>, << <<"result", JNum("7")>> >>) : i \in IdMembers }
    \cup { Envelope(i, << <<"error", RpcError("-32601", <<"Internal error">>)>> >>,
                    <<>>) : i \in IdMembers }

\* JSON documents that are no envelope
NonEnvelopes == { JNull, JNum("7"), JArr(<<>>), JStr(<<"Method">>) }

\* the envelopes every framing and content type is tried with
SampleEnvelopes ==
    { Envelope(<< <<"id", JNum("1")>> >>, e, r) :
        e \in { <<>>, << <<"error", RpcError("-32601", <<"Method", SP, "not found">>)>> >>,
                << <<"error", RpcError("-32601", <<"Internal error">>)>> >> },
        r \in { <<>>, << <<"result", JNum("7")>> >> } }

Framings ==
    {"plain", "pretty", "sse", "sseSplit", "sseFields", "sseNoSpace", "sseRaw",
     "prefixed"}

\* the body a server writes for the JSON text t
Frame(f, t) ==
    CASE f = "plain" -> t
      [] f = "pretty" -> <<NL, SP>> \o t \o <<NL>>
      [] f = "sse" -> EventPrefix \o <<"message", NL>> \o DataPrefix \o t \o <<NL, NL>>
      [] f = "sseSplit" ->
           EventPrefix \o <<"message", NL>>
           \o DataPrefix \o SubSeq(t, 1, Len(t) \div 2) \o <<NL>>
           \o DataPrefix \o SubSeq(t, Len(t) \div 2 + 1, Len(t)) \o <<NL, NL>>
      [] f = "sseFields" ->
           <<":", "keep-alive", NL>> \o IdPrefix \o <<SP, "7", NL>>
           \o RetryPrefix \o <<SP, "7", NL>> \o DataPrefix \o t \o <<NL, NL>>
      [] f = "sseRaw" ->
           <<"event", ":", "message", NL>>
           \o DataPrefix \o SubSeq(t, 1, Len(t) \div 2) \o <<NL>>
           \o SubSeq(t, Len(t) \div 2 + 1, Len(t)) \o <<NL, NL>>
      [] f = "sseNoSpace" -> <<"data", ":">> \o t \o <<NL, NL>>
      [] f = "prefixed" -> <<"Reply", ":", SP>> \o t \o <<NL>>

Padding == "------------------------------------------------------------"

\* bodies that hold no JSON document
Garbage ==
    { <<>>,
      <<"Method", SP, "Not Allowed">>,
      <<"Internal Server Error">>,
      <<"{", "Method", "}">>,
      <<"{", Quote, "result", Quote, ":">>,
      <<Padding, Padding, "Method">> }

\* the event stream "event: message\ndata: {"a":\ndata: 1}\n\n"
SplitDocument ==
    EventPrefix \o <<"message", NL>>
    \o DataPrefix \o <<"{", Quote, "a", Quote, ":", NL>>
    \o DataPrefix \o <<"1", "}", NL, NL>>

ContentTypes ==
    { <<>>, <<"application/json">>, <<"text/event-stream">>,
      <<"text/plain", ";", SP, "charset=utf-8">> }

Responses ==
    { HttpResponse(200, <<"application/json">>, Stringify(e)) :
        e \in Envelopes \cup NonEnvelopes }
    \cup { HttpResponse(200, c, Frame(f, Stringify(e))) :
             c \in ContentTypes, f \in Framings, e \in SampleEnvelopes }
    \cup { HttpResponse(200, c, g) : c \in ContentTypes, g \in Garbage }
    \cup { HttpResponse(200, c, SplitDocument) : c \in ContentTypes }
    \cup { HttpResponse(st, <<"application/json">>, b) :
             st \in {201, 404, 500},
             b \in { Stringify(e) : e \in SampleEnvelopes } \cup Garbage }
    \cup { FetchRejected }

\* the arguments a caller passes to an operation
ServerArgs == { JNull, JStr(<<"eu">>) }
CallArgs ==
    [server : ServerArgs,
     uri : { JStr(<<"resource://schedule">>) },
     name : { JStr(<<"getResourceSchedule">>) },
     arguments : { JObj(<< <<"resourceId", JStr(<<"X">>)>> >>) }]

ApiKeys == { JNull, JStr(<<>>), JStr(<<"secret">>) }
DEFAULT_SERVER_URL == "https://sandbox.api.dimescheduler.com/mcp"

\* --------------------------------------------------------- ChatMessage

Absent == [present |-> FALSE, items |-> <<>>]
Present(items) == [present |-> TRUE, items |-> items]

\* a ChatMessage without tool calls
Msg(role, content) ==
    [role |-> role, content |-> content,
     toolCalls |-> Absent, toolCallResults |-> Absent]

\* getSystemContextMessage(): the fixed instructions around the current time
getSystemContextMessage ==
    Msg("system", <<"You are an AI assistant integrated with the Dime.Scheduler MCP",
                    "Current Date and Time:", "now">>)

\* the synthesized message pushed without the test of line 124
AlwaysPrepend(messages) == <<getSystemContextMessage>> \o messages

\* lines 121-127
WithSystemContext(messages) ==
    IF Len(messages) > 0 /\ messages[1].role = "system" THEN messages
    ELSE <<getSystemContextMessage>> \o messages

WireMsg(role, content) ==
    [role |-> role, content |-> content, tool_calls |-> Absent,
     tool_call_id |-> ""]

\* the arguments of a tool call left out of its wire form
WireToolCallWithoutArguments(tc) ==
    [id |-> tc.id, type |-> "function",
     function |-> [name |-> tc.name, arguments |-> Stringify(JObj(<<>>))]]

\* lines 147-154
WireToolCall(tc) ==
    [id |-> tc.id, type |-> "function",
     function |-> [name |-> tc.name, arguments |-> Stringify(tc.arguments)]]

\* lines 161-167
WireToolResult(tcr) ==
    [role |-> "tool", content |-> Stringify(tcr.result), tool_calls |-> Absent,
     tool_call_id |-> tcr.toolCallId]

\* the tool messages of an assistant entry emitted before the entry itself
WireOfResultsFirst(msg) ==
    IF msg.role \in {"system", "user"} THEN <<WireMsg(msg.role, msg.content)>>
    ELSE (IF msg.toolCallResults.present
          THEN [i \in 1..Len(msg.toolCallResults.items) |->
                  WireToolResult(msg.toolCallResults.items[i])]
          ELSE <<>>)
         \o << [WireMsg("assistant", msg.content) EXCEPT
                  !.tool_calls =
                      IF msg.toolCalls.present /\ Len(msg.toolCalls.items) > 0
                      THEN Present([i \in 1..Len(msg.toolCalls.items) |->
                                   WireToolCall(msg.toolCalls.items[i])])
                      ELSE Absent] >>

\* lines 132-170: the wire messages of one history entry
WireOf(msg) ==
    IF msg.role \in {"system", "user"} THEN <<WireMsg(msg.role, msg.content)>>
    ELSE << [WireMsg("assistant", msg.content) EXCEPT
               !.tool_calls =
                   IF msg.toolCalls.present /\ Len(msg.toolCalls.items) > 0
                   THEN Present([i \in 1..Len(msg.toolCalls.items) |->
                                WireToolCall(msg.toolCalls.items[i])])
                   ELSE Absent] >>
         \o (IF msg.toolCallResults.present /\ Len(msg.toolCallResults.items) > 0
             THEN [i \in 1..Len(msg.toolCallResults.items) |->
                     WireToolResult(msg.toolCallResults.items[i])]
             ELSE <<>>)

RECURSIVE ToWire(_, _)
ToWire(messages, i) ==
    IF i > Len(messages) THEN <<>>
    ELSE WireOf(messages[i]) \o ToWire(messages, i + 1)

\* the description and the schema of the tool passed on as they are
ToolToFunctionWithoutDefaults(tool) ==
    [type |-> "function",
     function |-> [name |-> Get(tool, "name"),
                   description |-> Get(tool, "description"),
                   parameters |-> Get(tool, "inputSchema")]]

\* lines 30-40: the function of one tool
ToolToFunction(tool) ==
    [type |-> "function",
     function |->
       [name |-> Get(tool, "name"),
        description |->
            IF Truthy(Get(tool, "description")) THEN Get(tool, "description")
            ELSE JStr(<<"Tool: ">> \o ToStr(Get(tool, "name"))),
        parameters |->
            IF Truthy(Get(tool, "inputSchema")) THEN Get(tool, "inputSchema")
            ELSE JObj(<< <<"type", JStr(<<"object">>)>>,
                         <<"properties", JObj(<<>>)>> >>)]]

mcpToolsToOpenAIFunctions(tools) ==
    [i \in 1..Len(tools) |-> ToolToFunction(tools[i])]

\* tools and tool_choice sent whatever the length of the list
ModelRequestAlwaysTools(messages, tools) ==
    [model |-> "gpt-4-turbo-preview",
     messages |-> ToWire(WithSystemContext(messages), 1),
     tools |-> Present(mcpToolsToOpenAIFunctions(tools)),
     tool_choice |-> "auto"]

\* lines 119-181: the arguments of chat.completions.create
ModelRequest(messages, tools) ==
    LET functions == mcpToolsToOpenAIFunctions(tools) IN
    [model |-> "gpt-4-turbo-preview",
     messages |-> ToWire(WithSystemContext(messages), 1),
     tools |-> IF Len(functions) > 0 THEN Present(functions) ELSE Absent,
     tool_choice |-> IF Len(functions) > 0 THEN "auto" ELSE ""]

\* lines 197-203: JSON.parse of the argument string, {} when it throws
\* no fallback value for arguments that do not parse
ParsedOrNull(parsed) == IF parsed.ok THEN parsed.val ELSE JNull

ParsedOrEmpty(parsed) == IF parsed.ok THEN parsed.val ELSE JObj(<<>>)
ToolArguments(text) == ParsedOrEmpty(JSONParse(text))

\* lines 205-209
ToolCallOf(call) ==
    [id |-> call.id, name |-> call.function.name,
     arguments |-> ToolArguments(call.function.arguments)]

\* the catch of lines 218-224 left out: a failure of the tool leaves chat()
RethrowToolFailure(id, out) ==
    [thrown |-> out.kind = "throw", error |-> out.error,
     entry |-> [toolCallId |-> id, result |-> out.value]]

\* lines 212-224: the entry pushed for a tool call that returned or threw
ToolCallSettled(id, out) ==
    [thrown |-> FALSE, error |-> NoError,
     entry |-> [toolCallId |-> id,
                result |-> IF out.kind = "return" THEN out.value
                           ELSE JObj(<< <<"error", JStr(out.error.message)>> >>)]]

\* the failures caught at line 218 during the turn, with this one
Caught(failures, id, out) ==
    IF out.kind = "throw"
    THEN Append(failures, [toolCallId |-> id, message |-> out.error.message])
    ELSE failures

\* ----------------------------------------------- replies of the chat model

FunctionCall(id, name, arguments) ==
    [id |-> id, type |-> "function",
     function |-> [name |-> name, arguments |-> arguments]]

ScheduleCall ==
    FunctionCall("call_1", "getResourceSchedule",
                 Stringify(JObj(<< <<"resourceId", JStr(<<"X">>)>> >>)))
\* an argument string that is no JSON
BrokenCall ==
    FunctionCall("call_2", "getJobs", <<"{", Quote, "resourceId", Quote, ":">>)
\* an invocation that is not of type function
CustomCall ==
    [id |-> "call_3", type |-> "custom",
     function |-> [name |-> "", arguments |-> <<>>]]

ModelError == [kind |-> "error", content |-> JNull, tool_calls |-> Absent]
NoMessage == [kind |-> "empty", content |-> JNull, tool_calls |-> Absent]
ModelMessage(content, calls) ==
    [kind |-> "message", content |-> content, tool_calls |-> calls]

ToolCallLists ==
    { <<>>, <<ScheduleCall>>, <<BrokenCall>>, <<CustomCall>>,
      <<ScheduleCall, BrokenCall>>, <<CustomCall, ScheduleCall>>,
      <<BrokenCall, CustomCall, ScheduleCall>> }

ModelReplies ==
    { ModelError, NoMessage }
    \cup { ModelMessage(c, Absent) : c \in { JNull, JStr(<<"Done.">>) } }
    \cup { ModelMessage(JNull, Present(l)) : l \in ToolCallLists }
    \cup { ModelMessage(JStr(<<"Let me check.">>), Present(<<ScheduleCall>>)) }

\* what the MCP server answers to tools/call during a chat turn
ToolResponses ==
    { HttpResponse(200, <<"application/json">>,
        Stringify(Envelope(<< <<"id", JNum("1")>> >>, <<>>,
                           << <<"result", JNum("7")>> >>))),
      HttpResponse(200, <<"text/event-stream">>,
        Frame("sse", Stringify(Envelope(<< <<"id", JNum("1")>> >>,
            << <<"error", RpcError("-32603", <<"Internal error">>)>> >>, <<>>)))),
      HttpResponse(500, <<"text/plain">>, <<"Internal Server Error">>) }

UserMsg == Msg("user", <<"What tools are available?">>)
PriorToolRound ==
    [role |-> "assistant", content |-> <<>>,
     toolCalls |-> Present(<< [id |-> "call_0", name |-> "getJobs",
                               arguments |-> JObj(<<>>)] >>),
     toolCallResults |-> Present(<< [toolCallId |-> "call_0",
                                     result |-> JNum("7")] >>)]

\* the histories a caller passes to chat()
Histories ==
    { <<>>,
      <<UserMsg>>,
      <<Msg("system", <<"Be brief.">>), UserMsg>>,
      <<UserMsg, PriorToolRound, Msg("assistant", <<"Done.">>), UserMsg>> }

\* --------------------------------------------------------------- bounds

MaxRequests == 3
MaxRounds == 2

clientVars == <<client, wire, outbox, pending, completed>>
chatVars == <<service, chat>>
appVars == <<session, app>>
vars == <<client, wire, outbox, pending, completed, service, chat, session, app>>

\* no chat() call has been made. tools is the list this frame has read at
\* line 173
IdleChat ==
    [pc |-> "idle", input |-> <<>>, messages |-> <<>>, round |-> 0,
     request |-> ModelRequest(<<>>, <<>>), content |-> JNull, calls |-> Absent,
     idx |-> 0, toolCalls |-> <<>>, toolCallResults |-> <<>>,
     toolLog |-> <<>>, failures |-> <<>>, result |-> <<>>, error |-> NoError,
     cause |-> "", tools |-> <<>>]

\* new AIService(openaiApiKey, mcpClient)
NewService(mcpClient) ==
    [openai |-> TRUE, mcpClient |-> mcpClient, tools |-> <<>>]

\* the initial state of the store (mcpSession.ts lines 27-36); mcpClient and
\* aiService tell whether the field holds an instance
NewSession ==
    [openaiApiKey |-> <<>>, aiService |-> FALSE, mcpApiKey |-> <<>>,
     serverUrl |-> DEFAULT_SERVER_URL, mcpClient |-> FALSE, connected |-> FALSE,
     tools |-> <<>>, isLoading |-> FALSE, error |-> JNull]

\* no store operation in progress; aiService is what a loadTools() call has
\* read at line 90: "null", the instance the store holds ("current"), or an
\* instance the store has replaced since ("replaced")
IdleCall == [pc |-> "idle", aiService |-> "null"]

\* the App component when it mounts: no message, no turn in flight, no
\* effect run yet; no store operation called. returned: a connect() call has
\* returned at its guard; failed: a connect() has failed since the last
\* initialize()
NewApp ==
    [chatMessages |-> <<>>, chatLoading |-> FALSE, submits |-> 0,
     deps |-> <<>>,
     connect |-> IdleCall, loadTools |-> IdleCall,
     returned |-> FALSE, failed |-> FALSE]

InitClient ==
    /\ session = NewSession
    /\ app = NewApp
    /\ wire = <<>>
    /\ outbox = <<>>
    /\ pending = {}
    /\ completed = <<>>
    /\ chat = IdleChat

Init ==
    /\ InitClient
    /\ client \in { NewClient(DEFAULT_SERVER_URL, k) : k \in ApiKeys }
    /\ service = NewService(TRUE)

Quiet == outbox = <<>> /\ completed = <<>>

\* request(method, params) up to its first suspension: the id is taken and
\* fetch() is called
StartRequest(op, owner, args) ==
    LET next == getNextRequestId(client) IN
    /\ client' = next.client
    /\ outbox' = << [id |-> next.id, op |-> op, owner |-> owner,
                     call |-> FetchCall(client, next.id, MethodOf(op),
                                        ParamsOf(op, args))] >>
    /\ wire' = Append(wire, next.id)

\* a caller invokes one of the five public operations and awaits it
CallOp ==
    /\ Quiet
    /\ pending = {}
    /\ client.requestId < MaxRequests
    /\ \E op \in Ops, args \in CallArgs : StartRequest(op, "caller", args)
    /\ UNCHANGED <<pending, completed, service, chat, session, app>>

\* the request is on the network
Fetch ==
    /\ outbox # <<>>
    /\ pending' = pending \cup { [id |-> outbox[1].id, op |-> outbox[1].op,
                                  owner |-> outbox[1].owner] }
    /\ outbox' = <<>>
    /\ UNCHANGED <<client, wire, completed, service, chat, session, app>>

\* a result is only taken from an envelope that carries the request's id
CompletionIdCompared(p, resp, out) ==
    [id |-> p.id, op |-> p.op, owner |-> p.owner, resp |-> resp,
     responseText |-> IF resp.kind = "response" /\ ResponseOk(resp)
                      THEN parseSSEResponse(resp) ELSE <<>>,
     request |-> IF out.kind = "return" /\ ~Includes(resp.body, ToString(p.id))
                 THEN Throw("Error", <<"Unexpected response id">>) ELSE out,
     outcome |-> OpOutcome(p.op,
                   IF out.kind = "return" /\ ~Includes(resp.body, ToString(p.id))
                   THEN Throw("Error", <<"Unexpected response id">>) ELSE out)]

\* the settled operation: what request() did and what the operation did
Completion(p, resp, out) ==
    [id |-> p.id, op |-> p.op, owner |-> p.owner, resp |-> resp,
     responseText |-> IF resp.kind = "response" /\ ResponseOk(resp)
                      THEN parseSSEResponse(resp) ELSE <<>>,
     request |-> out, outcome |-> OpOutcome(p.op, out)]

\* fetch() settles for one pending request; request() and the operation
\* around it run to their return or throw
Respond(replies) ==
    /\ Quiet
    /\ \E p \in pending, resp \in replies, quoting \in BOOLEAN :
         /\ completed' = << Completion(p, resp, RequestOutcome(resp, quoting)) >>
         /\ pending' = pending \ {p}
    /\ UNCHANGED <<client, wire, outbox, service, chat, session, app>>

\* the caller's continuation takes the outcome
Settle ==
    /\ completed # <<>>
    /\ completed[1].owner = "caller"
    /\ completed' = <<>>
    /\ UNCHANGED <<client, wire, outbox, pending, service, chat, session, app>>

\* setApiKey(apiKey)
SetApiKey ==
    /\ Quiet
    /\ \E k \in ApiKeys : client' = [client EXCEPT !.apiKey = k]
    /\ UNCHANGED <<wire, outbox, pending, completed, service, chat,
                 session, app>>

NextClient ==
    \/ CallOp
    \/ Fetch
    \/ Respond(Responses)
    \/ Settle
    \/ SetApiKey

SpecClient == Init /\ [][NextClient]_vars

\* a caller invokes one of the five public operations without awaiting the
\* ones it has started (Promise.all, two components): request() runs up to
\* its await of fetch() while earlier requests are on the network
CallOverlapping ==
    /\ outbox = <<>>
    /\ client.requestId < MaxRequests
    /\ \E op \in Ops, args \in CallArgs : StartRequest(op, "caller", args)
    /\ UNCHANGED <<pending, completed, service, chat, session, app>>

NextOverlap ==
    \/ CallOverlapping
    \/ Fetch
    \/ Respond(ToolResponses)
    \/ Settle

SpecOverlap == Init /\ [][NextOverlap]_vars

\* ------------------------------------------------------- AIService.chat

\* the model asked once more after a failure of the model
ModelFailureRetried(c, name, message) == [c EXCEPT !.pc = "model", !.round = @ + 1]

\* lines 116, 176 and 186: the error leaves chat()
ModelFailure(c, name, message) ==
    [c EXCEPT !.pc = "failed", !.cause = "model",
              !.error = [name |-> name, message |-> message]]

\* the list read once per turn: a recursive call uses the list its caller read
ToolsOfCallingFrame(c) == IF c.round > 0 THEN c.tools ELSE service.tools

\* line 30: this.tools, read when mcpToolsToOpenAIFunctions() is called
ToolsRead(c) == service.tools

\* lines 114-181 of one (recursive) call chat(messages): the model is asked
BeginRound(c, messages) ==
    IF ~service.openai
    THEN ModelFailure(c, "Error", <<"OpenAI client not initialized">>)
    ELSE [c EXCEPT !.pc = "model", !.messages = messages, !.round = @ + 1,
                   !.tools = ToolsRead(c),
                   !.request = ModelRequest(messages, ToolsRead(c))]

\* every entry of tool_calls taken for a function invocation
AnyInvocation(toolCall) == TRUE

\* line 195
IsFunctionCall(toolCall) == toolCall.type = "function"

\* lines 194-226 from the i-th invocation of the reply, up to the next
\* invocation that needs the network (wait) or to the end of the list
RECURSIVE Advance(_, _), Invoke(_, _, _, _), Execute(_, _, _)
RECURSIVE WithoutClient(_, _, _, _)
Advance(c, i) ==
    IF ~c.calls.present \/ i > Len(c.calls.items)
    THEN [chat |-> [c EXCEPT !.idx = i], wait |-> FALSE, thrown |-> FALSE]
    ELSE IF ~IsFunctionCall(c.calls.items[i]) THEN Advance(c, i + 1)
    ELSE Invoke(c, i, c.calls.items[i].id, ToolCallOf(c.calls.items[i]))

\* lines 205-209: the invocation is recorded before it is executed
Invoke(c, i, id, toolCall) ==
    Execute([c EXCEPT !.idx = i, !.toolCalls = Append(@, toolCall)], i, id)

\* lines 46-49 and 213: executeToolCall awaits callTool when there is a client
Execute(c, i, id) ==
    IF service.mcpClient
    THEN [chat |-> c, wait |-> TRUE, thrown |-> FALSE]
    ELSE WithoutClient(c, i, Throw("Error", <<"MCP client not initialized">>),
                       ToolCallSettled(id,
                           Throw("Error", <<"MCP client not initialized">>)))

\* lines 218-224 for the failure of line 48, then the next invocation
WithoutClient(c, i, out, got) ==
    IF got.thrown
    THEN [chat |-> [c EXCEPT !.error = got.error],
          wait |-> FALSE, thrown |-> TRUE]
    ELSE Advance([c EXCEPT !.toolCallResults = Append(@, got.entry),
                           !.toolLog = Append(@, out),
                           !.failures = Caught(@, got.entry.toolCallId, out)],
                 i + 1)

\* the results attached last to first
AssistantWithResultsReversed(c) ==
    [role |-> "assistant",
     content |-> IF Truthy(c.content) THEN c.content.v ELSE <<>>,
     toolCalls |-> Present(c.toolCalls),
     toolCallResults |->
         Present([i \in 1..Len(c.toolCallResults) |->
                    c.toolCallResults[Len(c.toolCallResults) + 1 - i]])]

\* lines 232-237
AssistantWithToolCalls(c) ==
    [role |-> "assistant",
     content |-> IF Truthy(c.content) THEN c.content.v ELSE <<>>,
     toolCalls |-> Present(c.toolCalls),
     toolCallResults |-> Present(c.toolCallResults)]

\* the history with the synthesized message carried into the next round
UpdatedWithSystemContext(c) ==
    Append(WithSystemContext(c.messages), AssistantWithToolCalls(c))

\* lines 241-244
updatedMessages(c) == Append(c.messages, AssistantWithToolCalls(c))

\* the lists of the round returned whatever their length
FinalMessageWithLists(c) ==
    [role |-> "assistant",
     content |-> IF Truthy(c.content) THEN c.content.v ELSE <<>>,
     toolCalls |-> Present(c.toolCalls),
     toolCallResults |-> Present(c.toolCallResults)]

\* lines 252-257
FinalMessage(c) ==
    [role |-> "assistant",
     content |-> IF Truthy(c.content) THEN c.content.v ELSE <<>>,
     toolCalls |-> IF Len(c.toolCalls) > 0 THEN Present(c.toolCalls)
                   ELSE Absent,
     toolCallResults |-> IF Len(c.toolCallResults) > 0
                         THEN Present(c.toolCallResults) ELSE Absent]

\* another request made only while fewer than two rounds have run
HadToolCallsWithinLimit(c) == Len(c.toolCalls) > 0 /\ c.round < 2

\* line 230
HadToolCalls(c) == Len(c.toolCalls) > 0

\* lines 229-257 once the loop has stopped at a
Continue(a) ==
    IF a.thrown
    THEN /\ chat' = [a.chat EXCEPT !.pc = "failed", !.cause = "tool"]
         /\ UNCHANGED <<client, wire, outbox>>
    ELSE IF a.wait
    THEN /\ chat' = [a.chat EXCEPT !.pc = "tool"]
         /\ StartRequest("callTool", "chat",
              [server |-> JNull, uri |-> JNull,
               name |-> JStr(<<a.chat.toolCalls[Len(a.chat.toolCalls)].name>>),
               arguments |-> a.chat.toolCalls[Len(a.chat.toolCalls)].arguments])
    ELSE /\ chat' = IF HadToolCalls(a.chat)
                    THEN BeginRound(a.chat, updatedMessages(a.chat))
                    ELSE [a.chat EXCEPT !.pc = "returned",
                                        !.result = <<FinalMessage(a.chat)>>]
         /\ UNCHANGED <<client, wire, outbox>>

\* lines 194-258: chat() runs on from the i-th invocation until it awaits
\* callTool, awaits the model again, returns or throws
Proceed(c, i) == Continue(Advance(c, i))

\* the function invocations of a reply
FunctionCalls(reply) ==
    IF reply.tool_calls.present
    THEN SelectSeq(reply.tool_calls.items, LAMBDA call : call.type = "function")
    ELSE <<>>

\* a caller calls chat(history)
ChatCallWith(histories) ==
    /\ chat.pc = "idle"
    /\ Quiet
    /\ pending = {}
    /\ \E history \in histories :
         chat' = BeginRound([IdleChat EXCEPT !.input = history], history)
    /\ UNCHANGED <<client, wire, outbox, pending, completed, service,
                 session, app>>

\* chat.completions.create settles with one of the replies
ModelReplied(replies) ==
    /\ chat.pc = "model"
    /\ \E reply \in replies :
         /\ Len(FunctionCalls(reply)) > 0 => chat.round <= MaxRounds
         /\ client.requestId + Len(FunctionCalls(reply)) <= MaxRequests
         /\ CASE reply.kind = "error" ->
                   /\ chat' = ModelFailure(chat, "APIError",
                                            <<"Connection error.">>)
                   /\ UNCHANGED <<client, wire, outbox>>
              [] reply.kind = "empty" ->
                   /\ chat' = ModelFailure(chat, "Error",
                                            <<"No response from OpenAI">>)
                   /\ UNCHANGED <<client, wire, outbox>>
              [] OTHER ->
                   Proceed([chat EXCEPT !.content = reply.content,
                                        !.calls = reply.tool_calls,
                                        !.toolCalls = <<>>,
                                        !.toolCallResults = <<>>,
                                        !.toolLog = <<>>], 1)
    /\ UNCHANGED <<pending, completed, service, session, app>>

ChatCall == ChatCallWith(Histories)

ModelReply == ModelReplied(ModelReplies)

\* callTool settles: lines 213-224, then the loop and the rest of chat()
ToolSettled ==
    /\ chat.pc = "tool"
    /\ completed # <<>>
    /\ completed[1].owner = "chat"
    /\ LET out == completed[1].outcome
           got == ToolCallSettled(chat.calls.items[chat.idx].id, out)
       IN IF got.thrown
          THEN /\ chat' = [chat EXCEPT !.pc = "failed", !.cause = "tool",
                                       !.error = got.error]
               /\ UNCHANGED <<client, wire, outbox>>
          ELSE Proceed([chat EXCEPT !.toolCallResults = Append(@, got.entry),
                                    !.toolLog = Append(@, out),
                                    !.failures =
                                        Caught(@, got.entry.toolCallId, out)],
                       chat.idx + 1)
    /\ completed' = <<>>
    /\ UNCHANGED <<pending, service, session, app>>

\* the tool lists setTools is called with
ToolLists == { <<>>, <<ScheduleTool>> }

InitChat ==
    /\ InitClient
    /\ client = NewClient(DEFAULT_SERVER_URL, JStr(<<"secret">>))
    /\ \E mcpClient \in BOOLEAN : service = NewService(mcpClient)

\* setTools(tools), between two steps of a turn or outside one
SetToolsFrom(lists) ==
    /\ Quiet
    /\ \E tools \in lists : service' = [service EXCEPT !.tools = tools]
    /\ UNCHANGED <<client, wire, outbox, pending, completed, chat,
                 session, app>>

SetTools == SetToolsFrom(ToolLists)

NextChat ==
    \/ ChatCall
    \/ ModelReply
    \/ Fetch
    \/ Respond(ToolResponses)
    \/ ToolSettled
    \/ SetTools

SpecChat == InitChat /\ [][NextChat]_vars

\* ------------------------------------------------ tool schema conversion

\* the description and inputSchema members of a tool as a server lists it:
\* absent, null, empty, or given
Descriptions ==
    { <<>>,
      << <<"description", JNull>> >>,
      << <<"description", JStr(<<>>)>> >>,
      << <<"description", JStr(<<"Gets the schedule of a resource">>)>> >> }

ResourceIdSchema ==
    JObj(<< <<"type", JStr(<<"object">>)>>,
            <<"properties",
              JObj(<< <<"resourceId",
                        JObj(<< <<"type", JStr(<<"string">>)>> >>)>> >>)>>,
            <<"required", JArr(<<JStr(<<"resourceId">>)>>)>> >>)

InputSchemas ==
    { <<>>,
      << <<"inputSchema", JNull>> >>,
      << <<"inputSchema", JObj(<<>>)>> >>,
      << <<"inputSchema", ResourceIdSchema>> >> }

ListedTool(name, description, inputSchema) ==
    JObj(<< <<"name", JStr(<<name>>)>> >> \o description \o inputSchema)

\* the tool lists of a server with one or two tools
ListedToolLists ==
    { <<>> }
    \cup { <<ListedTool("getResourceSchedule", d, s)>> :
             d \in Descriptions, s \in InputSchemas }
    \cup { <<ListedTool("getResourceSchedule", d, s), ListedTool("getJobs", e, r)>> :
             d \in Descriptions, s \in InputSchemas,
             e \in { <<>>, << <<"description", JStr(<<"Lists the jobs">>)>> >> },
             r \in { <<>>, << <<"inputSchema", ResourceIdSchema>> >> } }

\* the model answers with text
TextReplies == { ModelMessage(JStr(<<"Done.">>), Absent) }

NextFunctions ==
    \/ SetToolsFrom(ListedToolLists)
    \/ ChatCallWith({ <<UserMsg>> })
    \/ ModelReplied(TextReplies)

SpecFunctions == InitChat /\ [][NextFunctions]_vars

\* -------------------------------------------- session store (mcpSession.ts)

MaxSent == 3

\* String.prototype.trim
RECURSIVE TrimStart(_)
TrimStart(s) == IF s # <<>> /\ IsWs(s[1]) THEN TrimStart(Tail(s)) ELSE s
RECURSIVE TrimEnd(_)
TrimEnd(s) ==
    IF s # <<>> /\ IsWs(s[Len(s)]) THEN TrimEnd(SubSeq(s, 1, Len(s) - 1)) ELSE s
Trim(s) == TrimEnd(TrimStart(s))

\* the keys and the server URL initialize() is called with; "" is no URL
OpenAIKeys == { <<>>, <<"sk-test">> }
McpKeys == { <<>>, <<SP>>, <<"secret">> }
ServerUrls == { "" }

\* what the MCP server answers to initialize and tools/list
SessionResults ==
    { ToolsResult(<<ScheduleTool>>), ToolsResult(<<>>), JNum("7"), JNull }
SessionResponses ==
    { HttpResponse(200, <<"application/json">>,
        Stringify(Envelope(<< <<"id", JNum("1")>> >>, <<>>,
                           << <<"result", r>> >>))) : r \in SessionResults }
    \cup { HttpResponse(200, <<"application/json">>,
             Stringify(Envelope(<< <<"id", JNum("1")>> >>,
               << <<"error", RpcError("-32601", <<"Method", SP, "not found">>)>> >>,
               <<>>))),
           HttpResponse(500, <<"text/plain">>, <<"Internal Server Error">>) }

SessionArgs ==
    [server |-> JNull, uri |-> JStr(<<"resource://schedule">>),
     name |-> JStr(<<"getResourceSchedule">>), arguments |-> JObj(<<>>)]

\* line 40
ServerOf(serverUrl) == IF serverUrl = "" THEN DEFAULT_SERVER_URL ELSE serverUrl

\* lines 40-43: new MCPClient(server, mcpApiKey || null)
SessionClient(mcpApiKey, serverUrl) ==
    NewClient(ServerOf(serverUrl),
              IF mcpApiKey = <<>> THEN JNull ELSE JStr(mcpApiKey))

\* connected left as it is
InitializedKeepingConnected(s, openaiApiKey, mcpApiKey, serverUrl) ==
    [s EXCEPT !.openaiApiKey = openaiApiKey, !.mcpApiKey = mcpApiKey,
              !.serverUrl = ServerOf(serverUrl), !.mcpClient = TRUE,
              !.aiService = (Trim(openaiApiKey) # <<>>)]

\* lines 59-66: the fields initialize() sets
Initialized(s, openaiApiKey, mcpApiKey, serverUrl) ==
    [s EXCEPT !.openaiApiKey = openaiApiKey, !.mcpApiKey = mcpApiKey,
              !.serverUrl = ServerOf(serverUrl), !.mcpClient = TRUE,
              !.aiService = (Trim(openaiApiKey) # <<>>),
              !.connected = FALSE]

\* the dependencies of the auto-connect effect (App.tsx line 77)
Deps(s) == <<s.openaiApiKey, s.mcpApiKey, s.connected, s.isLoading>>

\* the effects of the last render have run: React runs them before it
\* handles another event
EffectsRun == app.deps = Deps(session)

\* a loadTools() call in progress keeps the AIService it has read
Replaced(call) ==
    IF call.aiService = "current" THEN [call EXCEPT !.aiService = "replaced"]
    ELSE call

\* initialize(openaiApiKey, mcpApiKey, serverUrl?): a new MCPClient and, with
\* a non-blank OpenAI key, a new AIService around it
InitializeCall(openaiApiKey, mcpApiKey, serverUrl) ==
    /\ client' = SessionClient(mcpApiKey, serverUrl)
    /\ service' = IF Trim(openaiApiKey) # <<>> THEN NewService(TRUE)
                  ELSE service
    /\ session' = Initialized(session, openaiApiKey, mcpApiKey, serverUrl)
    /\ app' = [app EXCEPT !.connect = Replaced(@),
                          !.loadTools = Replaced(@),
                          !.failed = FALSE]
    /\ UNCHANGED <<wire, outbox, pending, completed, chat>>

\* the keys are entered: initializeMCPSession (mcpSession.ts lines 122-126)
InitializeWith(serverUrls) ==
    /\ Quiet
    /\ app.deps # <<>> => EffectsRun
    /\ \E openaiApiKey \in OpenAIKeys, mcpApiKey \in McpKeys,
          serverUrl \in serverUrls :
         InitializeCall(openaiApiKey, mcpApiKey, serverUrl)

Initialize == InitializeWith(ServerUrls)

\* connect() goes on whatever the MCP key is
ConnectGuardClientOnly(s) == s.mcpClient

\* line 71
ConnectGuard(s) == s.mcpClient /\ Trim(s.mcpApiKey) # <<>>

\* the error of the previous connect() kept
ConnectBeginsKeepingError(s) == [s EXCEPT !.isLoading = TRUE]

\* line 73
ConnectBegins(s) == [s EXCEPT !.isLoading = TRUE, !.error = JNull]

\* the aiService a loadTools() call reads at line 90
AIServiceRead == IF session.aiService THEN "current" ELSE "null"

\* connect() up to its first suspension, called from the component state a
ConnectCall(a) ==
    IF ConnectGuard(session)
    THEN /\ session' = ConnectBegins(session)
         /\ app' = [a EXCEPT !.connect = [pc |-> "initialize",
                                          aiService |-> "null"]]
         /\ StartRequest("initialize", "connect", SessionArgs)
    ELSE /\ app' = [a EXCEPT !.returned = TRUE]
         /\ UNCHANGED <<session, client, wire, outbox>>

\* a component calls connect()
Connect ==
    /\ Quiet
    /\ EffectsRun
    /\ app.connect.pc = "idle"
    /\ app.loadTools.pc = "idle"
    /\ Len(wire) + 2 <= MaxSent
    /\ ConnectCall(app)
    /\ UNCHANGED <<pending, completed, service, chat>>

\* App.tsx line 74
ShouldConnect(s) ==
    /\ Trim(s.openaiApiKey) # <<>>
    /\ Trim(s.mcpApiKey) # <<>>
    /\ ~s.connected
    /\ ~s.isLoading

\* the auto-connect effect (App.tsx lines 73-77) runs after a render in
\* which one of its dependencies changed
AutoConnect ==
    /\ Quiet
    /\ app.deps # Deps(session)
    /\ IF ShouldConnect(session)
       THEN /\ Len(wire) + 2 <= MaxSent
            /\ ConnectCall([app EXCEPT !.deps = Deps(session)])
       ELSE /\ app' = [app EXCEPT !.deps = Deps(session)]
            /\ UNCHANGED <<session, client, wire, outbox>>
    /\ UNCHANGED <<pending, completed, service, chat>>

\* lines 79-83 and 85: the catch and the finally of connect()
ConnectFailed(s, error) ==
    [s EXCEPT !.error = JStr(error.message), !.connected = FALSE,
              !.isLoading = FALSE]

\* mcpClient.initialize() settles in connect(): lines 76-78 up to the
\* request of loadTools(), or lines 79-86
ConnectInitialized ==
    /\ EffectsRun
    /\ completed # <<>>
    /\ completed[1].owner = "connect"
    /\ app.connect.pc = "initialize"
    /\ IF completed[1].outcome.kind = "return"
       THEN /\ session' = [session EXCEPT !.connected = TRUE]
            /\ app' = [app EXCEPT !.connect = [pc |-> "loadTools",
                                               aiService |-> AIServiceRead]]
            /\ StartRequest("listTools", "connect", SessionArgs)
       ELSE /\ session' = ConnectFailed(session, completed[1].outcome.error)
            /\ app' = [app EXCEPT !.connect = IdleCall, !.failed = TRUE]
            /\ UNCHANGED <<client, wire, outbox>>
    /\ completed' = <<>>
    /\ UNCHANGED <<pending, service, chat>>

\* lines 94-96 and 102-105: the list loadTools() stores, and whether it comes
\* from the try block; reading .tools of null throws
ToolsLoaded(out) ==
    IF out.kind = "return" /\ out.value.t # "null"
    THEN [listed |-> TRUE,
          tools |-> IF Truthy(Get(out.value, "tools"))
                    THEN Get(out.value, "tools").v ELSE <<>>]
    ELSE [listed |-> FALSE, tools |-> <<>>]

\* lines 98-101: the AIService the store holds after a loadTools() that had
\* read the instance `read`; setTools on a replaced instance leaves it alone
ToolsOffered(svc, read, loaded) ==
    IF loaded.listed /\ Len(loaded.tools) > 0 /\ read = "current"
    THEN [svc EXCEPT !.tools = loaded.tools]
    ELSE svc

\* mcpClient.listTools() settles in the loadTools() of connect(): lines
\* 94-105, then the finally of connect()
ConnectToolsListed ==
    /\ EffectsRun
    /\ completed # <<>>
    /\ completed[1].owner = "connect"
    /\ app.connect.pc = "loadTools"
    /\ session' = [session EXCEPT
                     !.tools = ToolsLoaded(completed[1].outcome).tools,
                     !.isLoading = FALSE]
    /\ service' = ToolsOffered(service, app.connect.aiService,
                               ToolsLoaded(completed[1].outcome))
    /\ app' = [app EXCEPT !.connect = IdleCall]
    /\ completed' = <<>>
    /\ UNCHANGED <<client, wire, outbox, pending, chat>>

\* a component calls loadTools()
LoadTools ==
    /\ Quiet
    /\ EffectsRun
    /\ app.connect.pc = "idle"
    /\ app.loadTools.pc = "idle"
    /\ Len(wire) < MaxSent
    /\ IF session.mcpClient
       THEN /\ app' = [app EXCEPT !.loadTools = [pc |-> "listTools",
                                                 aiService |-> AIServiceRead]]
            /\ StartRequest("listTools", "loadTools", SessionArgs)
       ELSE UNCHANGED <<app, client, wire, outbox>>
    /\ UNCHANGED <<pending, completed, service, chat, session>>

\* mcpClient.listTools() settles in that loadTools(): lines 94-105
LoadToolsListed ==
    /\ EffectsRun
    /\ completed # <<>>
    /\ completed[1].owner = "loadTools"
    /\ session' = [session EXCEPT
                     !.tools = ToolsLoaded(completed[1].outcome).tools]
    /\ service' = ToolsOffered(service, app.loadTools.aiService,
                               ToolsLoaded(completed[1].outcome))
    /\ app' = [app EXCEPT !.loadTools = IdleCall]
    /\ completed' = <<>>
    /\ UNCHANGED <<client, wire, outbox, pending, chat>>

InitSession ==
    /\ InitClient
    /\ client = NewClient(DEFAULT_SERVER_URL, JNull)
    /\ service = NewService(FALSE)

NextSession ==
    \/ Initialize
    \/ AutoConnect
    \/ Connect
    \/ LoadTools
    \/ Fetch
    \/ Respond(SessionResponses)
    \/ ConnectInitialized
    \/ ConnectToolsListed
    \/ LoadToolsListed

SpecSession == InitSession /\ [][NextSession]_vars

\* ------------------------------------------- chat turns of App (App.tsx)

MaxSubmits == 3

\* what the user submits
Inputs == { <<>>, <<SP>>, <<SP, "What tools are available?", SP>> }

\* the replies of the model during the turns of the App
TurnReplies ==
    { ModelError,
      ModelMessage(JStr(<<"Done.">>), Absent),
      ModelMessage(JNull, Present(<<ScheduleCall>>)) }

\* a message submitted while a turn is in flight is sent as well
SubmitAcceptedWhileLoading(input, loading) == Trim(input) # <<>>

\* ChatInterface.tsx lines 53-54
SubmitAccepted(input, loading) == Trim(input) # <<>> /\ ~loading

\* the message put before the stored history
WithMessageFirst(prev, message) == <<message>> \o prev

\* App.tsx lines 88, 93 and 100: [...prev, message]
WithMessage(prev, message) == Append(prev, message)

\* App.tsx lines 92-100: the message stored when chat() has returned or thrown
TurnMessage(c) ==
    IF c.pc = "returned" THEN c.result[1]
    ELSE Msg("assistant", <<"Error: ">> \o c.error.message)

\* handleSendMessage(message), App.tsx lines 79-92, up to the first
\* suspension of chat()
SendMessage(message) ==
    IF ~session.aiService
    THEN /\ app' = [app EXCEPT !.submits = @ + 1]
         /\ UNCHANGED chat
    ELSE /\ app' = [app EXCEPT
                      !.submits = @ + 1,
                      !.chatMessages = WithMessage(@, Msg("user", message)),
                      !.chatLoading = TRUE]
         /\ chat' = BeginRound(
                      [IdleChat EXCEPT
                         !.input = Append(app.chatMessages, Msg("user", message))],
                      Append(app.chatMessages, Msg("user", message)))

\* the form is submitted: handleSubmit (ChatInterface.tsx lines 50-59)
SubmitFrom(inputs) ==
    /\ app.submits < MaxSubmits
    /\ \E input \in inputs :
         IF SubmitAccepted(input, app.chatLoading)
         THEN SendMessage(Trim(input))
         ELSE /\ app' = [app EXCEPT !.submits = @ + 1]
              /\ UNCHANGED chat
    /\ UNCHANGED <<client, wire, outbox, pending, completed, service, session>>

Submit == SubmitFrom(Inputs)

\* chat() has returned or thrown: App.tsx lines 92-103
TurnEnds ==
    /\ chat.pc \in {"returned", "failed"}
    /\ app' = [app EXCEPT
                 !.chatMessages = WithMessage(@, TurnMessage(chat)),
                 !.chatLoading = FALSE]
    /\ chat' = IdleChat
    /\ UNCHANGED <<client, wire, outbox, pending, completed, service, session>>

\* the session the turns run in: initialized without an OpenAI key, or
\* initialized with one and connected by the auto-connect effect, the tools
\* listed
ConnectedSession(openaiApiKey) ==
    IF Trim(openaiApiKey) = <<>>
    THEN Initialized(NewSession, openaiApiKey, <<"secret">>, "")
    ELSE [Initialized(NewSession, openaiApiKey, <<"secret">>, "") EXCEPT
            !.connected = TRUE, !.tools = <<ScheduleTool>>]

InitTurns ==
    /\ wire = <<>>
    /\ outbox = <<>>
    /\ pending = {}
    /\ completed = <<>>
    /\ chat = IdleChat
    /\ client = NewClient(DEFAULT_SERVER_URL, JStr(<<"secret">>))
    /\ \E openaiApiKey \in OpenAIKeys :
         /\ session = ConnectedSession(openaiApiKey)
         /\ service = [NewService(TRUE) EXCEPT
                         !.tools = ConnectedSession(openaiApiKey).tools]
         /\ app = [NewApp EXCEPT
                     !.deps = Deps(ConnectedSession(openaiApiKey))]

NextTurns ==
    \/ Submit
    \/ ModelReplied(TurnReplies)
    \/ Fetch
    \/ Respond(ToolResponses)
    \/ ToolSettled
    \/ TurnEnds

SpecTurns == InitTurns /\ [][NextTurns]_vars

\* ------------------------------------------------- the App and its session

\* the server URL the App passes to initialize(): none, or an override
AppServerUrls == { "", "https://mcp.example.test/mcp" }

\* the messages the user sends
AppInputs == { <<"What tools are available?">> }

\* what the MCP server answers to the App: a result listing a tool, or a
\* failure
AppResponses ==
    { HttpResponse(200, <<"application/json">>,
        Stringify(Envelope(<< <<"id", JNum("1")>> >>, <<>>,
                           << <<"result", ToolsResult(<<ScheduleTool>>)>> >>))),
      HttpResponse(500, <<"text/plain">>, <<"Internal Server Error">>) }

\* the App as it is wired: the keys are entered, the auto-connect effect
\* connects, messages are sent and answered by text or by a failure
NextApp ==
    \/ InitializeWith(AppServerUrls)
    \/ AutoConnect
    \/ Fetch
    \/ Respond(AppResponses)
    \/ ConnectInitialized
    \/ ConnectToolsListed
    \/ SubmitFrom(AppInputs)
    \/ ModelReplied(TextReplies)
    \/ TurnEnds

SpecApp == InitSession /\ [][NextApp]_vars

\* ------------------------------------------------- transport properties

HasCompleted == completed # <<>>
Done == completed[1]

\* the request() local `data` of the completed request, decoded again from
\* the response that was delivered
DataOf(c) == DecodeBody(parseSSEResponse(c.resp), FALSE)
Got2xx(c) == c.resp.kind = "response" /\ c.resp.status \in 200..299

\* the id member of the JSON body handed to fetch()
SentId(call) == Get(JSONParse(call.body).val, "id")

\* C1: the k-th request sent carries id k: the first id is 1, the ids are
\* strictly increasing and none is used twice.
C1_RequestIdsCountUp ==
    /\ \A k \in 1..Len(wire) : wire[k] = k
    /\ \A j, k \in 1..Len(wire) : j < k => wire[j] < wire[k]
    /\ outbox # <<>> =>
         /\ outbox[1].id = Len(wire)
         /\ SentId(outbox[1].call) = JNum(ToString(Len(wire)))

C1_Witness ==
    /\ Len(wire) = 3
    /\ outbox # <<>>
    /\ outbox[1].op = "callTool"

IsOpStep ==
    outbox' # outbox \/ pending' # pending \/ completed' # completed

\* C2: every invocation of a transport operation advances the request-id
\* counter by exactly one, at the invocation; no later step of the operation,
\* whatever its outcome, changes the counter again, and no step changes the
\* server URL or the API key.
C2_CounterOncePerCall ==
    [][ IsOpStep =>
          IF outbox = <<>> /\ outbox' # <<>>
          THEN client' = [client EXCEPT !.requestId = client.requestId + 1]
          ELSE client' = client ]_vars

C2_Witness ==
    /\ HasCompleted
    /\ Done.op = "listTools"
    /\ Done.request.kind = "throw"
    /\ Done.outcome.kind = "return"
    /\ client.requestId = 2
    /\ Len(wire) = 2

MarkerIn(message) ==
    \E i \in 1..Len(message) :
        message[i] \in {"not available", "Method", "-32601"}

\* C5: listTools / listResources put {tools: []} / {resources: []} in place
\* of a failure exactly when the failed request's message contains one of
\* the markers; a failure without a marker propagates as the same error, and
\* a success returns the server's result unchanged.
C5_ListDegradesOnMarkerOnly ==
    (HasCompleted /\ Done.op \in {"listTools", "listResources"}) =>
        LET key == IF Done.op = "listTools" THEN "tools" ELSE "resources"
            empty == Return(JObj(<< <<key, JArr(<<>>)>> >>))
        IN CASE Done.request.kind = "return" -> Done.outcome = Done.request
             [] Done.request.kind = "throw"
                /\ MarkerIn(Done.request.error.message) -> Done.outcome = empty
             [] OTHER -> Done.outcome = Done.request

C5_Witness ==
    /\ HasCompleted
    /\ Done.op = "listResources"
    /\ Done.request = Throw("Error", <<"Method", SP, "not found">>)
    /\ Done.outcome.kind = "return"
    /\ Get(Done.outcome.value, "resources") = JArr(<<>>)

IsTransportError(err) ==
    err.name = "Error" /\ StartsWith(err.message, <<"HTTP error! status: ">>)
IsParseError(err) ==
    \/ err.name = "SyntaxError"
    \/ err.name = "Error"
       /\ StartsWith(err.message, <<"Failed to parse response as JSON: ">>)

\* C6: a TransportError (non-2xx status) or a ParseError (unparsable body)
\* raised by the request under listTools / listResources always propagates
\* and is never replaced by an empty list.
C6_ListPropagatesTransportAndParse ==
    (/\ HasCompleted
     /\ Done.op \in {"listTools", "listResources"}
     /\ Done.request.kind = "throw"
     /\ IsTransportError(Done.request.error) \/ IsParseError(Done.request.error))
    => Done.outcome = Done.request

\* C7: initialize, fetchResource and callTool hand every failure of the
\* request to their caller and never substitute a result, also when the
\* message contains a marker.
C7_OtherOpsPropagate ==
    (HasCompleted /\ Done.op \in {"initialize", "fetchResource", "callTool"})
    => Done.outcome = Done.request

C7_Witness ==
    /\ HasCompleted
    /\ Done.op = "fetchResource"
    /\ Done.request.kind = "throw"
    /\ MarkerIn(Done.request.error.message)
    /\ Done.outcome.kind = "throw"

\* C8: a response with a non-2xx status fails with an error carrying that
\* status, whatever the body holds.
C8_Non2xxFailsWithStatus ==
    (HasCompleted /\ Done.resp.kind = "response"
     /\ Done.resp.status \notin 200..299)
    => Done.request =
         Throw("Error", <<"HTTP error! status: ", ToString(Done.resp.status)>>)

C8_Witness ==
    /\ HasCompleted
    /\ Done.resp.kind = "response"
    /\ Done.resp.status = 404
    /\ JSONParse(Done.resp.body).ok
    /\ Get(JSONParse(Done.resp.body).val, "result") = JNum("7")
    /\ Get(JSONParse(Done.resp.body).val, "error") = Undefined

NonNull(val) == val # Undefined /\ val # JNull

\* C9: a 2xx response whose decoded envelope carries a non-null error fails
\* with the server's message, or with 'MCP server error' when the message is
\* empty or absent, also when the envelope holds a result.
C9_ErrorWinsOverResult ==
    (/\ HasCompleted
     /\ Got2xx(Done)
     /\ DataOf(Done).ok
     /\ DataOf(Done).data.t = "obj"
     /\ NonNull(Get(DataOf(Done).data, "error")))
    => LET message == Get(Get(DataOf(Done).data, "error"), "message") IN
       Done.request =
         Throw("Error", IF message = Undefined \/ message = JStr(<<>>)
                        THEN <<"MCP server error">> ELSE message.v)

C9_Witness ==
    /\ HasCompleted
    /\ Got2xx(Done)
    /\ DataOf(Done).ok
    /\ Get(DataOf(Done).data, "result") = JNum("7")
    /\ Get(Get(DataOf(Done).data, "error"), "message") = JStr(<<"Internal error">>)
    /\ Done.request.kind = "throw"

\* C10: a request returns a value only when the status is 2xx, the body
\* decodes, the envelope has no error and its result is defined, and it then
\* returns that result; an envelope with neither an error nor a defined
\* result fails with 'No result in MCP response'.
C10_ReturnsOnlyDefinedResult ==
    HasCompleted =>
      /\ Done.request.kind = "return" =>
           /\ Got2xx(Done)
           /\ DataOf(Done).ok
           /\ ~NonNull(Get(DataOf(Done).data, "error"))
           /\ Get(DataOf(Done).data, "result") # Undefined
           /\ Done.request.value = Get(DataOf(Done).data, "result")
      /\ (/\ Got2xx(Done)
          /\ DataOf(Done).ok
          /\ DataOf(Done).data.t = "obj"
          /\ ~NonNull(Get(DataOf(Done).data, "error"))
          /\ Get(DataOf(Done).data, "result") = Undefined)
         => Done.request = Throw("Error", <<"No result in MCP response">>)

C10_Witness ==
    /\ HasCompleted
    /\ Got2xx(Done)
    /\ DataOf(Done).ok
    /\ DataOf(Done).data.t = "obj"
    /\ Get(DataOf(Done).data, "error") = JNull
    /\ Get(DataOf(Done).data, "result") = Undefined
    /\ Done.request.kind = "throw"

\* ------------------------------------------------------- SSE properties

RECURSIVE Concat(_, _)
Concat(parts, i) ==
    IF i > Len(parts) THEN <<>> ELSE parts[i] \o Concat(parts, i + 1)

TreatedAsSSE(c) == Got2xx(c) /\ IsSSE(c.resp.ctype)
LinesOf(c) == Split(c.resp.body, NL)

IsDataLine(line) == StartsWith(line, DataPrefix)
DataContent(line) == SubSeq(line, Len(DataPrefix) + 1, Len(line))

\* blank lines, comments and the event: / id: / retry: fields
IsSkippedLine(line) ==
    \/ \A i \in 1..Len(line) : line[i] \in {SP, NL}
    \/ line[1] = ":"
    \/ StartsWith(line, EventPrefix)
    \/ StartsWith(line, IdPrefix)
    \/ StartsWith(line, RetryPrefix)

\* C11 (as the code has it): for a response treated as SSE, the text handed
\* to the JSON parser is the concatenation, in line order, of the content of
\* each "data: " line (prefix stripped) and of every other line taken whole
\* that is not blank, not a comment and not an "event: ", "id:" or "retry:"
\* field; when that concatenation is empty, it is the whole body.
C11_SSETextIsDataAndOtherLines ==
    (HasCompleted /\ TreatedAsSSE(Done)) =>
        LET lines == LinesOf(Done)
            joined == Concat([i \in 1..Len(lines) |->
                                IF IsDataLine(lines[i]) THEN DataContent(lines[i])
                                ELSE IF IsSkippedLine(lines[i]) THEN <<>>
                                ELSE lines[i]], 1)
        IN Done.responseText = IF joined = <<>> THEN Done.resp.body ELSE joined

\* a stream whose text is made of a data line and of a line that is no field
C11_Witness ==
    /\ HasCompleted
    /\ TreatedAsSSE(Done)
    /\ \E i, j \in 1..Len(LinesOf(Done)) :
          /\ IsDataLine(LinesOf(Done)[i])
          /\ Len(DataContent(LinesOf(Done)[i])) > 0
          /\ ~IsDataLine(LinesOf(Done)[j])
          /\ ~IsSkippedLine(LinesOf(Done)[j])
    /\ Done.request.kind = "return"

\* C11 (as stated): the text handed to the JSON parser is exactly the
\* concatenation of the contents of the "data: " lines, and no other line of
\* the body is included.
C11_SSETextIsDataLinesOnly ==
    (HasCompleted /\ TreatedAsSSE(Done)) =>
        LET lines == LinesOf(Done)
        IN Done.responseText =
               Concat([i \in 1..Len(lines) |->
                         IF IsDataLine(lines[i]) THEN DataContent(lines[i])
                         ELSE <<>>], 1)

\* C12: the stream "event: message", "data: {"a":", "data: 1}" and blank
\* lines decodes to the text {"a":1}, which is the JSON document {a: 1}.
C12_SplitDocumentReconstructed ==
    (HasCompleted /\ TreatedAsSSE(Done) /\ Done.resp.body = SplitDocument) =>
        /\ Done.responseText = <<"{", Quote, "a", Quote, ":", "1", "}">>
        /\ JSONParse(Done.responseText) =
               ParseOk(JObj(<< <<"a", JNum("1")>> >>), 8)
        /\ Done.request = Throw("Error", <<"No result in MCP response">>)

C12_Witness ==
    /\ HasCompleted
    /\ TreatedAsSSE(Done)
    /\ Done.resp.body = SplitDocument
    /\ Done.resp.ctype = <<"text/event-stream">>
    /\ Done.op = "callTool"

\* C13: when JSON.parse of the decoded text fails, the brace-delimited
\* substring is parsed in its place; when there is no such substring or it
\* is not valid JSON either, the request fails with the parse error
\* 'Failed to parse response as JSON: ' followed by the first 100 characters
\* at most of the text.
C13_FallbackFailsWithExcerpt ==
    (HasCompleted /\ Got2xx(Done) /\ ~JSONParse(Done.responseText).ok) =>
        IF JsonMatch(Done.responseText) # <<>>
           /\ JSONParse(JsonMatch(Done.responseText)).ok
        THEN Done.request =
                 EnvelopeOutcome(JSONParse(JsonMatch(Done.responseText)).val)
        ELSE Done.request =
                 Throw("Error", <<"Failed to parse response as JSON: ">>
                                \o Substring(Done.responseText, 1, ExcerptLen))

\* ------------------------------------------------------ chat properties

\* {toolCallId, result: {error: <message>}}
ErrorEntry(id, message) ==
    [toolCallId |-> id, result |-> JObj(<< <<"error", JStr(message)>> >>)]

\* the entry the round must hold for the k-th executed invocation
EntryFor(id, out) ==
    IF out.kind = "throw" THEN ErrorEntry(id, out.error.message)
    ELSE [toolCallId |-> id, result |-> out.value]

LastMessage == chat.messages[Len(chat.messages)]
ToolMessages ==
    SelectSeq(chat.request.messages, LAMBDA m : m.role = "tool")

\* C3: a failing tool invocation never makes chat() fail. Every invocation
\* executed in the round, failed ones included (callTool threw, or there is no
\* transport client), has its entry in the round's results, the entry of a
\* failed one being {toolCallId, result: {error: <message>}}; chat() fails only
\* on a failure of the model; it does not return from a round that invoked a
\* tool; and when the model is queried again, every function invocation of the
\* reply has been executed and the results, in order, are in the assistant
\* message appended to the history and in the tool messages sent to the model.
C3_FailingToolNeverFailsChat ==
    /\ chat.pc = "failed" => chat.cause = "model"
    /\ chat.pc = "returned" => chat.toolLog = <<>> /\ Len(chat.toolCalls) = 0
    /\ chat.pc \in {"tool", "model", "failed"} =>
         /\ Len(chat.toolCallResults) = Len(chat.toolLog)
         /\ Len(chat.toolCallResults) <= Len(chat.toolCalls)
         /\ \A k \in 1..Len(chat.toolLog) :
              chat.toolCallResults[k] =
                  EntryFor(chat.toolCalls[k].id, chat.toolLog[k])
    /\ (chat.pc = "model" /\ chat.round > 1) =>
         /\ Len(chat.toolLog) = Len(FunctionCalls([tool_calls |-> chat.calls]))
         /\ \A k \in 1..Len(chat.toolLog) :
              chat.toolCalls[k].id =
                  FunctionCalls([tool_calls |-> chat.calls])[k].id
         /\ LastMessage.role = "assistant"
         /\ LastMessage.toolCalls = Present(chat.toolCalls)
         /\ LastMessage.toolCallResults = Present(chat.toolCallResults)
         /\ Len(ToolMessages) >= Len(chat.toolCallResults)
         /\ \A k \in 1..Len(chat.toolCallResults) :
              ToolMessages[Len(ToolMessages) - Len(chat.toolCallResults) + k]
                  = WireToolResult(chat.toolCallResults[k])

\* the model is asked again after a round whose first invocation failed on
\* the network and whose second invocation then succeeded
C3_Witness ==
    /\ chat.pc = "model"
    /\ chat.round = 2
    /\ service.mcpClient
    /\ Len(chat.toolLog) = 2
    /\ chat.toolLog[1].kind = "throw"
    /\ chat.toolLog[2].kind = "return"
    /\ chat.toolCallResults[1] =
           ErrorEntry("call_1", <<"HTTP error! status: ", "500">>)

\* C4: when a tool threw during the turn, the message chat() returns has a
\* toolCallResults list holding {toolCallId, result: {error: <msg>}} for that
\* call, next to the text answered after the model was asked again.
C4_ReturnedMessageHasToolError ==
    (chat.pc = "returned" /\ chat.failures # <<>>) =>
        /\ chat.result[1].toolCallResults.present
        /\ \A k \in 1..Len(chat.failures) :
             \E j \in 1..Len(chat.result[1].toolCallResults.items) :
                 chat.result[1].toolCallResults.items[j] =
                     ErrorEntry(chat.failures[k].toolCallId,
                                chat.failures[k].message)

\* a round of chat() has built its request and awaits the model
InRound == chat.pc = "model"
Payload == chat.request.messages
Synthesized ==
    [role |-> "system", content |-> getSystemContextMessage.content,
     tool_calls |-> Absent, tool_call_id |-> ""]
BeginsWithSystem(messages) ==
    Len(messages) > 0 /\ messages[1].role = "system"

\* C14: in every round the payload starts with the synthesized system
\* message if and only if the history given to the round does not start with
\* a system message; when it does, the payload is the conversion of the
\* history as given, and otherwise the synthesized message followed by it.
C14_SystemContextPrependedIffMissing ==
    InRound =>
        /\ (Payload[1] = Synthesized) <=> ~BeginsWithSystem(chat.messages)
        /\ BeginsWithSystem(chat.messages) =>
             /\ Payload = ToWire(chat.messages, 1)
             /\ Payload[1].content = chat.messages[1].content
        /\ ~BeginsWithSystem(chat.messages) =>
             Payload = <<Synthesized>> \o ToWire(chat.messages, 1)

\* the second round of a turn whose history starts with a system message
C14_Witness ==
    /\ chat.pc = "model"
    /\ chat.round = 2
    /\ BeginsWithSystem(chat.messages)
    /\ Payload[1].content = <<"Be brief.">>
    /\ Len(Payload) = 4

SynthesizedIn(payload) ==
    Cardinality({ k \in 1..Len(payload) : payload[k] = Synthesized })

\* the working history is the caller's history followed by one assistant
\* message with tool calls per earlier round, the synthesized message not
\* among them, and the caller's history is as it was given
HistoryKept ==
    /\ Len(chat.messages) = Len(chat.input) + chat.round - 1
    /\ SubSeq(chat.messages, 1, Len(chat.input)) = chat.input
    /\ \A k \in Len(chat.input) + 1..Len(chat.messages) :
         /\ chat.messages[k].role = "assistant"
         /\ chat.messages[k].toolCalls.present
    /\ \A k \in 1..Len(chat.messages) :
         chat.messages[k] # getSystemContextMessage

Converted == WithSystemContext(chat.messages)
ResultsOf(msg) ==
    IF msg.role = "assistant" /\ msg.toolCallResults.present
    THEN msg.toolCallResults.items ELSE <<>>

\* the place in the payload of the k-th entry of the converted history
RECURSIVE PlaceOf(_)
PlaceOf(k) ==
    IF k = 1 THEN 1
    ELSE PlaceOf(k - 1) + 1 + Len(ResultsOf(Converted[k - 1]))

\* C16: the wire messages are the history entries in history order, each
\* assistant entry immediately followed by one tool-role message per element
\* of its toolCallResults, in list order and tagged with the element's
\* toolCallId, before the next entry; there is no other tool-role message.
C16_WireKeepsOrder ==
    InRound =>
        /\ Len(Payload) = PlaceOf(Len(Converted) + 1) - 1
        /\ \A k \in 1..Len(Converted) :
             /\ Payload[PlaceOf(k)].role = Converted[k].role
             /\ Payload[PlaceOf(k)].content = Converted[k].content
             /\ \A i \in 1..Len(ResultsOf(Converted[k])) :
                  /\ Payload[PlaceOf(k) + i].role = "tool"
                  /\ Payload[PlaceOf(k) + i].tool_call_id =
                         ResultsOf(Converted[k])[i].toolCallId
                  /\ Payload[PlaceOf(k) + i].content =
                         Stringify(ResultsOf(Converted[k])[i].result)
        /\ Cardinality({ j \in 1..Len(Payload) : Payload[j].role = "tool" })
             = Len(Payload) - Len(Converted)

\* a history with an earlier tool round in its middle, converted after a
\* round with two invocations
C16_Witness ==
    /\ chat.pc = "model"
    /\ chat.round = 2
    /\ Len(chat.input) = 4
    /\ Len(chat.toolCallResults) = 2
    /\ Len(Payload) = 9
    /\ Payload[4].role = "tool"
    /\ Payload[5].role = "assistant"
    /\ Payload[8].tool_call_id = "call_1"
    /\ Payload[9].tool_call_id = "call_2"

\* a step that issues a model call, and a step in which chat() returns
IssuesModelCall == chat'.round # chat.round
Returns == chat.pc # "returned" /\ chat'.pc = "returned"

\* C17: a model call carries the function list and tool_choice "auto" if and
\* only if the tool list of the service is not empty when the call is made,
\* and neither field otherwise; a reply without function invocations makes
\* chat() return {role: assistant, content: <the reply's text>} without
\* toolCalls.
C17_ToolsSentIffRegistered ==
    [][ /\ IssuesModelCall =>
             /\ chat'.request.tools.present <=> Len(service.tools) > 0
             /\ chat'.request.tool_choice =
                    (IF Len(service.tools) > 0 THEN "auto" ELSE "")
             /\ Len(chat'.request.tools.items) = Len(service.tools)
             /\ \A k \in 1..Len(service.tools) :
                  chat'.request.tools.items[k].function.name =
                      Get(service.tools[k], "name")
        /\ Returns =>
             /\ FunctionCalls([tool_calls |-> chat'.calls]) = <<>>
             /\ chat'.result =
                    << [role |-> "assistant",
                        content |-> IF chat'.content.t = "str"
                                    THEN chat'.content.v ELSE <<>>,
                        toolCalls |-> Absent, toolCallResults |-> Absent] >>
      ]_vars

\* "What tools are available?" asked with no tool registered and answered
\* by text
C17_Witness ==
    /\ chat.pc = "returned"
    /\ chat.round = 1
    /\ chat.input = <<UserMsg>>
    /\ service.tools = <<>>
    /\ ~chat.request.tools.present
    /\ chat.request.tool_choice = ""
    /\ chat.result[1].content = <<"Done.">>
    /\ ~chat.result[1].toolCalls.present

\* the function invocations of the reply being handled
Requested == FunctionCalls([tool_calls |-> chat.calls])
Malformed(call) == ~JSONParse(call.function.arguments).ok

\* the params of the tools/call request being sent for the chat turn
SentParams == Get(JSONParse(outbox[1].call.body).val, "params")

\* C18: an invocation whose argument string is not valid JSON does not fail
\* the turn: it is recorded with the empty mapping as arguments, and callTool
\* is executed for it, sending tools/call with its name and arguments {}.
C18_MalformedArgumentsBecomeEmpty ==
    /\ chat.pc = "failed" => chat.cause = "model"
    /\ chat.pc \in {"tool", "model"} =>
         /\ Len(chat.toolCalls) <= Len(Requested)
         /\ \A k \in 1..Len(chat.toolCalls) :
              /\ chat.toolCalls[k].id = Requested[k].id
              /\ chat.toolCalls[k].name = Requested[k].function.name
              /\ Malformed(Requested[k]) =>
                     chat.toolCalls[k].arguments = JObj(<<>>)
    /\ (chat.pc = "tool" /\ outbox # <<>>) =>
         /\ outbox[1].op = "callTool"
         /\ Get(SentParams, "name") =
                JStr(<<Requested[Len(chat.toolCalls)].function.name>>)
         /\ Get(SentParams, "arguments") =
                chat.toolCalls[Len(chat.toolCalls)].arguments
         /\ Malformed(Requested[Len(chat.toolCalls)]) =>
                Get(SentParams, "arguments") = JObj(<<>>)

\* tools/call is being sent for the invocation with the broken arguments
C18_Witness ==
    /\ chat.pc = "tool"
    /\ outbox # <<>>
    /\ Requested[Len(chat.toolCalls)] = BrokenCall
    /\ Malformed(BrokenCall)
    /\ Get(SentParams, "name") = JStr(<<"getJobs">>)
    /\ Get(SentParams, "arguments") = JObj(<<>>)

\* the tools/call requests of the turn that have started and not yet been
\* taken by chat()
InProgress ==
    Len(outbox) + Cardinality(pending) + Len(completed)

\* C19: within a round the tool calls run one at a time in the order the
\* model requested them: a call is started only when every earlier call of
\* the round has its result, and at most one request is in progress. Every
\* assistant message of a round has toolCalls and toolCallResults of equal
\* length with toolCallResults[i].toolCallId = toolCalls[i].id.
C19_ToolCallsSequentialAndPaired ==
    /\ InProgress <= 1
    /\ InProgress = 1 <=> chat.pc = "tool"
    /\ chat.pc = "tool" =>
         /\ Len(chat.toolCalls) = Len(chat.toolCallResults) + 1
         /\ chat.idx \in 1..Len(chat.calls.items)
         /\ chat.calls.items[chat.idx].id = chat.toolCalls[Len(chat.toolCalls)].id
    /\ chat.pc \in {"tool", "model"} =>
         /\ \A k \in 1..Len(chat.toolCalls) : chat.toolCalls[k].id = Requested[k].id
         /\ \A k \in 1..Len(chat.toolCallResults) :
              chat.toolCallResults[k].toolCallId = Requested[k].id
    /\ \A m \in 1..Len(chat.messages) :
         chat.messages[m].toolCalls.present =>
             /\ chat.messages[m].toolCallResults.present
             /\ Len(chat.messages[m].toolCallResults.items) =
                    Len(chat.messages[m].toolCalls.items)
             /\ \A i \in 1..Len(chat.messages[m].toolCalls.items) :
                  chat.messages[m].toolCallResults.items[i].toolCallId =
                      chat.messages[m].toolCalls.items[i].id

\* the second call of a round is on the network, the first one has its result
C19_Witness ==
    /\ chat.pc = "tool"
    /\ Cardinality(pending) = 1
    /\ Len(chat.toolCalls) = 2
    /\ Len(chat.toolCallResults) = 1
    /\ chat.toolCallResults[1].toolCallId = "call_1"
    /\ chat.toolCalls[2].id = "call_2"

\* the text of the reply just handled: '' when it has none
ReplyText == IF chat'.content.t = "str" THEN chat'.content.v ELSE <<>>
Recurses == chat.round >= 1 /\ chat'.round = chat.round + 1

\* C20: chat() returns only from a round whose reply held no function
\* invocation, and what it returns is text-only: role assistant, the reply's
\* text ('' when none), toolCalls and toolCallResults absent. Every earlier
\* round, before the model is asked again, appends exactly one assistant
\* message to the working history: the reply's text with all the tool calls
\* and tool results of that round.
C20_ReturnsTextOnlyAfterToolRounds ==
    [][ /\ Returns =>
             /\ FunctionCalls([tool_calls |-> chat'.calls]) = <<>>
             /\ chat'.messages = chat.messages
             /\ chat'.result =
                    << [role |-> "assistant", content |-> ReplyText,
                        toolCalls |-> Absent, toolCallResults |-> Absent] >>
        /\ Recurses =>
             /\ Len(FunctionCalls([tool_calls |-> chat'.calls])) > 0
             /\ Len(chat'.toolCalls) =
                    Len(FunctionCalls([tool_calls |-> chat'.calls]))
             /\ Len(chat'.toolCallResults) = Len(chat'.toolCalls)
             /\ chat'.messages =
                    Append(chat.messages,
                           [role |-> "assistant", content |-> ReplyText,
                            toolCalls |-> Present(chat'.toolCalls),
                            toolCallResults |-> Present(chat'.toolCallResults)])
             /\ chat'.pc = "model"
        /\ chat'.messages # chat.messages => chat'.round # chat.round
      ]_vars

\* a text answer returned after one round with two tool calls
C20_Witness ==
    /\ chat.pc = "returned"
    /\ chat.round = 2
    /\ Len(chat.messages) = Len(chat.input) + 1
    /\ Len(LastMessage.toolCalls.items) = 2
    /\ Len(LastMessage.toolCallResults.items) = 2
    /\ chat.result[1] = Msg("assistant", <<"Done.">>)

\* a step of chat() that handles a reply of the model holding function
\* invocations, and a step that handles the settling of a tool call
HandlesToolReply ==
    /\ chat.pc = "model"
    /\ chat' # chat
    /\ chat'.pc # "failed"
    /\ Len(FunctionCalls([tool_calls |-> chat'.calls])) > 0
HandlesToolResult == chat.pc = "tool" /\ chat' # chat

\* C21: the tool loop has no round limit. A reply with function invocations,
\* in whatever round, is followed by its tool calls and then by one more
\* model call, never by a return; chat() returns only on a reply without
\* invocations; so after k replies with invocations and one without, chat()
\* has made exactly k + 1 model calls (k being the number of assistant
\* messages appended to the working history).
C21_NoRoundLimit ==
    [][ /\ HandlesToolReply =>
             /\ chat'.pc \in {"tool", "model"}
             /\ chat'.pc = "model" => chat'.round = chat.round + 1
             /\ chat'.pc = "tool" => chat'.round = chat.round
        /\ HandlesToolResult =>
             /\ chat'.pc \in {"tool", "model"}
             /\ chat'.pc = "model" => chat'.round = chat.round + 1
             /\ chat'.pc = "tool" => chat'.round = chat.round
        /\ Returns =>
             /\ chat.pc = "model"
             /\ FunctionCalls([tool_calls |-> chat'.calls]) = <<>>
             /\ chat'.round = chat.round
             /\ chat'.round = Len(chat'.messages) - Len(chat'.input) + 1
        /\ chat'.round \in {chat.round, chat.round + 1}
        /\ chat'.pc # "idle" =>
             chat'.round = Len(chat'.messages) - Len(chat'.input) + 1
      ]_vars

\* chat() returns after as many rounds with tool calls as the model asked for
C21_Witness ==
    /\ chat.pc = "returned"
    /\ chat.round = MaxRounds + 1
    /\ Len(chat.messages) = Len(chat.input) + MaxRounds

ModelErrors ==
    { [name |-> "Error", message |-> <<"OpenAI client not initialized">>],
      [name |-> "APIError", message |-> <<"Connection error.">>],
      [name |-> "Error", message |-> <<"No response from OpenAI">>] }

\* C22: a failure of the model is fatal to the turn and not retried. chat()
\* fails only while it awaits the model, with the model's error, without a
\* further model call or tool request in that step; once failed it does
\* nothing more; and the model is asked again only with a history that has
\* grown by the assistant message of a tool round.
C22_ModelFailureIsFatal ==
    [][ /\ (chat.pc # "failed" /\ chat'.pc = "failed") =>
             /\ chat.pc = "model"
             /\ chat'.cause = "model"
             /\ chat'.error \in ModelErrors
             /\ chat' = [chat EXCEPT !.pc = "failed", !.cause = "model",
                                     !.error = chat'.error]
             /\ wire' = wire /\ outbox' = outbox /\ pending' = pending
        /\ chat.pc = "failed" =>
             /\ chat' = chat
             /\ wire' = wire /\ outbox' = outbox /\ pending' = pending
        /\ Recurses => Len(chat'.messages) = Len(chat.messages) + 1
      ]_vars

\* the model gives no message in the round after a tool call was executed
C22_Witness ==
    /\ chat.pc = "failed"
    /\ chat.round = 2
    /\ Len(wire) = 1
    /\ Len(chat.toolCallResults) = 1
    /\ chat.error = [name |-> "Error", message |-> <<"No response from OpenAI">>]

\* the id member of the envelope that answered the completed request
ResponseId(c) == Get(DataOf(c).data, "id")

\* C30: the id of a response is never compared with the id of the request:
\* a 2xx response whose envelope has no error and a defined result makes the
\* request return that result, whatever id the envelope carries and also
\* when it carries none.
C30_ResponseIdNotCompared ==
    (/\ HasCompleted
     /\ Got2xx(Done)
     /\ DataOf(Done).ok
     /\ DataOf(Done).data.t = "obj"
     /\ ~NonNull(Get(DataOf(Done).data, "error"))
     /\ Get(DataOf(Done).data, "result") # Undefined)
    => Done.request = Return(Get(DataOf(Done).data, "result"))

\* the second request is answered by an envelope with id 7 and returns
C30_Witness ==
    /\ HasCompleted
    /\ Done.id = 2
    /\ Got2xx(Done)
    /\ DataOf(Done).ok
    /\ ResponseId(Done) = JNum("7")
    /\ Done.request = Return(JNum("7"))

\* a request answered by an envelope without an id returns as well
C30_WitnessNoId ==
    /\ HasCompleted
    /\ Got2xx(Done)
    /\ DataOf(Done).ok
    /\ DataOf(Done).data.t = "obj"
    /\ ResponseId(Done) = Undefined
    /\ Done.request = Return(JNum("7"))

\* the way back from the wire format: an entry per system, user and
\* assistant message, its tool calls read as chat() reads the model's
\* (ToolCallOf), and the tool messages that follow it parsed into its
\* toolCallResults
ResultOfWire(w) ==
    [toolCallId |-> w.tool_call_id, result |-> JSONParse(w.content).val]

RECURSIVE ToolRun(_, _)
ToolRun(ws, i) ==
    IF i > Len(ws) \/ ws[i].role # "tool" THEN <<>>
    ELSE <<ResultOfWire(ws[i])>> \o ToolRun(ws, i + 1)

RECURSIVE FromWire(_, _)
FromWire(ws, i) ==
    IF i > Len(ws) THEN <<>>
    ELSE IF ws[i].role = "tool" THEN FromWire(ws, i + 1)
    ELSE << [role |-> ws[i].role, content |-> ws[i].content,
             toolCalls |->
                 IF ws[i].tool_calls.present
                 THEN Present([k \in 1..Len(ws[i].tool_calls.items) |->
                                 ToolCallOf(ws[i].tool_calls.items[k])])
                 ELSE Absent,
             toolCallResults |->
                 IF ToolRun(ws, i + 1) # <<>>
                 THEN Present(ToolRun(ws, i + 1)) ELSE Absent] >>
         \o FromWire(ws, i + 1)

\* an absent list and an empty list are the same to every reader of a
\* ChatMessage
ItemsOf(list) == IF list.present THEN list.items ELSE <<>>
Equivalent(a, b) ==
    /\ a.role = b.role
    /\ a.content = b.content
    /\ ItemsOf(a.toolCalls) = ItemsOf(b.toolCalls)
    /\ ItemsOf(a.toolCallResults) = ItemsOf(b.toolCallResults)

\* the entries read back are the entries of the history, place by place
SameEntries(read, messages) ==
    /\ Len(read) = Len(messages)
    /\ \A k \in 1..Len(messages) : Equivalent(read[k], messages[k])

\* the payload without the synthesized system message
PayloadOfHistory ==
    IF BeginsWithSystem(chat.messages) THEN Payload
    ELSE SubSeq(Payload, 2, Len(Payload))

\* C27: the wire conversion is lossless: in every round, the payload without
\* the synthesized system message, read back into ChatMessage entries, gives
\* as many entries as the history of the round, each with the role, content,
\* tool calls (ids, names, arguments) and tool results (call ids, results) of
\* the history entry at its place.
C27_WireConversionLossless ==
    InRound => SameEntries(FromWire(PayloadOfHistory, 1), chat.messages)

\* a third round, whose history holds the caller's tool round and two rounds
\* of this turn, one with arguments that did not parse and a failed tool call
C27_Witness ==
    /\ InRound
    /\ chat.round = 3
    /\ chat.messages[2] = PriorToolRound
    /\ \E k \in 1..Len(chat.messages) :
         /\ chat.messages[k].toolCalls.present
         /\ chat.messages[k].toolCalls.items[1].id = "call_2"
         /\ chat.messages[k].toolCallResults.items[1].result.t = "obj"
    /\ \E k \in 1..Len(chat.messages) :
         /\ chat.messages[k].toolCalls.present
         /\ chat.messages[k].toolCalls.items[1].id = "call_1"
         /\ chat.messages[k].toolCallResults.items[1].result = JNum("7")

\* ------------------------------------------------------ session properties

SendsInitialize ==
    /\ Len(wire') = Len(wire) + 1
    /\ outbox' # <<>>
    /\ outbox'[1].op = "initialize"
SendsToolsList ==
    /\ Len(wire') = Len(wire) + 1
    /\ outbox' # <<>>
    /\ outbox'[1].op = "listTools"
EffectRuns == app'.deps # app.deps
ConnectStarts == app.connect.pc = "idle" /\ app'.connect.pc # "idle"
ConnectFinishes == app.connect.pc # "idle" /\ app'.connect.pc = "idle"
\* a loadTools() call completes whose AIService is still the store's
LoadToolsFinishes ==
    \/ /\ app.connect.pc = "loadTools"
       /\ app'.connect.pc = "idle"
       /\ app.connect.aiService = "current"
    \/ /\ app.loadTools.pc # "idle"
       /\ app'.loadTools.pc = "idle"
       /\ app.loadTools.aiService = "current"

\* C23: after a connect() has failed, no initialize request is sent by the
\* application itself (its auto-connect effect) until initialize() has been
\* called again with the keys and the server URL.
C23_FailedConnectNotRetried ==
    [][ (EffectRuns /\ SendsInitialize) => ~app.failed ]_vars

\* C24: when a loadTools() call completes, the list the AIService of the
\* store offers to the model is the tools list of the store.
C24_ToolListReplacedOnRefresh ==
    [][ LoadToolsFinishes => service'.tools = session'.tools ]_vars

\* C28: connect() is ordered and gated. It sends tools/list only in the step
\* in which its initialize request has succeeded; connected becomes true in
\* that step and in no other, and is false after the step in which the
\* initialize request has failed; the step in which the listing settles,
\* with whatever outcome, leaves connected and error alone; and no
\* initialize request is sent while the store holds no client or a blank
\* MCP key.
C28_ConnectOrderedAndGated ==
    [][ /\ (SendsToolsList /\ outbox'[1].owner = "connect") =>
             /\ app.connect.pc = "initialize"
             /\ completed[1].op = "initialize"
             /\ completed[1].outcome.kind = "return"
             /\ session'.connected
        /\ (app.connect.pc = "initialize" /\ app'.connect.pc # "initialize") =>
             /\ session'.connected = (completed[1].outcome.kind = "return")
             /\ completed[1].outcome.kind = "return" <=> SendsToolsList
             /\ completed[1].outcome.kind = "throw" <=> session'.error # JNull
        /\ (~session.connected /\ session'.connected) =>
             app.connect.pc = "initialize"
        /\ (app.connect.pc = "loadTools" /\ app'.connect.pc # "loadTools") =>
             /\ session'.connected = session.connected
             /\ session'.error = session.error
        /\ (~session.mcpClient \/ \A i \in 1..Len(session.mcpApiKey) :
                                    IsWs(session.mcpApiKey[i])) =>
             /\ ~SendsInitialize
             /\ ~ConnectStarts
             /\ (~app.returned /\ app'.returned) =>
                  /\ wire' = wire /\ outbox' = outbox /\ pending' = pending
                  /\ session' = session
        /\ ConnectStarts => SendsInitialize
      ]_vars

\* the listing of a connect() has failed and connected is true, after an
\* earlier connect() has returned at its guard
C28_Witness ==
    /\ app.returned
    /\ app.connect.pc = "loadTools"
    /\ completed # <<>>
    /\ completed[1].owner = "connect"
    /\ completed[1].outcome.kind = "throw"
    /\ session.connected
    /\ session.error = JNull

\* C29: a connect() that passes its guard sets isLoading and clears the error
\* of an earlier connect() in the step in which it sends its first request,
\* and isLoading is false after the step in which connect() finishes, by
\* success, by a failed initialize or by a failed listing.
C29_LoadingBracketsConnect ==
    [][ /\ ConnectStarts =>
             /\ session'.isLoading
             /\ session'.error = JNull
             /\ SendsInitialize
        /\ ConnectFinishes => ~session'.isLoading
        /\ (session'.isLoading # session.isLoading) =>
             (ConnectStarts \/ ConnectFinishes)
      ]_vars

\* a connect() in progress after an earlier one has failed: the error of the
\* earlier one is cleared
C29_Witness ==
    /\ app.failed
    /\ app.connect.pc = "initialize"
    /\ outbox # <<>>
    /\ session.isLoading
    /\ session.error = JNull

\* ------------------------------------------------- chat turn properties

TurnBegins == ~app.chatLoading /\ app'.chatLoading
TurnIsOver == app.chatLoading /\ ~app'.chatLoading
Submitted == app'.submits # app.submits
Stored == app.chatMessages
ErrorText(c) == <<"Error: ">> \o c.error.message

\* C25: the stored history only grows at its end and by one message at a
\* time: the user message when a turn is accepted, and when the turn ends
\* exactly one assistant message, the answer of chat() or 'Error: ' and the
\* message of its failure; user and assistant messages therefore alternate.
C25_HistoryAppendOnly ==
    [][ /\ Len(app'.chatMessages) >= Len(Stored)
        /\ SubSeq(app'.chatMessages, 1, Len(Stored)) = Stored
        /\ Len(app'.chatMessages) <= Len(Stored) + 1
        /\ TurnBegins <=>
             /\ Len(app'.chatMessages) = Len(Stored) + 1
             /\ app'.chatMessages[Len(Stored) + 1].role = "user"
        /\ TurnIsOver <=>
             /\ Len(app'.chatMessages) = Len(Stored) + 1
             /\ app'.chatMessages[Len(Stored) + 1].role = "assistant"
        /\ TurnIsOver =>
             /\ chat.pc = "returned" =>
                  app'.chatMessages[Len(Stored) + 1] = chat.result[1]
             /\ chat.pc = "failed" =>
                  app'.chatMessages[Len(Stored) + 1] =
                      Msg("assistant", ErrorText(chat))
             /\ chat.pc \in {"returned", "failed"}
        /\ \A k \in 1..Len(app'.chatMessages) :
             app'.chatMessages[k].role =
                 IF k % 2 = 1 THEN "user" ELSE "assistant"
      ]_vars

\* two turns stored, the first ended by an error and the second by an answer
C25_Witness ==
    /\ Len(app.chatMessages) = 4
    /\ ~app.chatLoading
    /\ app.chatMessages[1] = Msg("user", <<"What tools are available?">>)
    /\ app.chatMessages[2] = Msg("assistant", <<"Error: ", "Connection error.">>)
    /\ app.chatMessages[4] = Msg("assistant", <<"Done.">>)

\* C26: turns are serialized by the caller: a message submitted while a turn
\* is in flight changes nothing, chat() is only called when no turn is in
\* flight and none is in progress, a chat() call is in progress exactly
\* while chatLoading is set, and chatLoading is cleared in the step in which
\* the turn ends, by an answer or by a failure.
C26_TurnsSerialized ==
    [][ /\ (app.chatLoading /\ Submitted) =>
             /\ app' = [app EXCEPT !.submits = app'.submits]
             /\ chat' = chat
             /\ wire' = wire /\ outbox' = outbox /\ pending' = pending
        /\ (chat'.round = 1 /\ chat.round # 1) =>
             /\ chat.pc = "idle"
             /\ TurnBegins
        /\ (chat.pc # "idle" /\ chat'.pc = "idle") =>
             /\ chat.pc \in {"returned", "failed"}
             /\ TurnIsOver
        /\ app'.chatLoading <=> chat'.pc # "idle"
      ]_vars

\* a message was submitted and ignored while the first turn is in flight
C26_Witness ==
    /\ app.chatLoading
    /\ app.submits = 2
    /\ Len(app.chatMessages) = 1
    /\ chat.pc = "tool"

\* ------------------------------------------------- overlapping operations

\* the requests started and not yet completed
InFlight == Cardinality(pending) + Len(outbox)

\* C31: operations started on one client before any of them completes get
\* distinct request ids in the order they were started: the ids sent are
\* strictly increasing in start order, the requests on the network carry
\* pairwise different ids that were all sent, and the id in the body handed
\* to fetch() is the id taken at the start of that operation.
C31_OverlappingIdsDistinct ==
    /\ \A j, k \in 1..Len(wire) : j < k => wire[j] < wire[k]
    /\ \A p, q \in pending : p # q => p.id # q.id
    /\ \A p \in pending : \E k \in 1..Len(wire) : wire[k] = p.id
    /\ InFlight <= Len(wire)
    /\ outbox # <<>> =>
         /\ outbox[1].id = wire[Len(wire)]
         /\ SentId(outbox[1].call) = JNum(ToString(wire[Len(wire)]))
         /\ \A p \in pending : p.id < outbox[1].id

\* three operations started, none completed: two are on the network and the
\* third is being sent
C31_Witness ==
    /\ Len(wire) = 3
    /\ Cardinality(pending) = 2
    /\ outbox # <<>>
    /\ completed = <<>>
    /\ { p.id : p \in pending } = {1, 2}
    /\ outbox[1].id = 3

\* ------------------------------------------------- tool catalogue per round

\* the names of the functions a model request offers
OfferedNames(request) ==
    [k \in 1..Len(request.tools.items) |-> request.tools.items[k].function.name]
\* the names of the tools of a tool list
ToolNames(tools) == [k \in 1..Len(tools) |-> Get(tools[k], "name")]

\* C32: every model call of a turn is issued with the tool list the service
\* holds at the moment of that call: the functions offered are the tools of
\* that list, in every round; when setTools has installed a different list
\* since the previous model call of the turn, the later call offers
\* different functions than the earlier one.
C32_CatalogueReadEachRound ==
    [][ IssuesModelCall =>
          /\ chat'.tools = service.tools
          /\ OfferedNames(chat'.request) = ToolNames(service.tools)
          /\ chat'.request.tools.present <=> service.tools # <<>>
          /\ chat.round >= 1 =>
                /\ OfferedNames(chat.request) = ToolNames(chat.tools)
                /\ service.tools # chat.tools =>
                      /\ chat'.request.tools # chat.request.tools
                      /\ OfferedNames(chat'.request) # OfferedNames(chat.request)
      ]_vars

\* the first model call of the turn was made with no tool installed and its
\* reply asked for a tool; a tool was installed while that invocation was
\* awaited, so the model call of the next round offers it
C32_Witness ==
    /\ chat.pc = "tool"
    /\ chat.round = 1
    /\ chat.tools = <<>>
    /\ ~chat.request.tools.present
    /\ service.tools = <<ScheduleTool>>
    /\ completed # <<>>
    /\ ~ToolCallSettled(chat.calls.items[chat.idx].id,
                        completed[1].outcome).thrown
    /\ chat.idx = Len(chat.calls.items)

\* the second model call of a turn offers the tool installed, whatever the
\* first one offered
C32_WitnessSecondRound ==
    /\ chat.pc = "model"
    /\ chat.round = 2
    /\ chat.tools = <<ScheduleTool>>
    /\ OfferedNames(chat.request) = <<JStr(<<"getResourceSchedule">>)>>
    /\ chat.request.tool_choice = "auto"
    /\ Len(chat.messages) = Len(chat.input) + 1

\* the tool list was emptied while the invocation of the first round was
\* awaited: the next model call offers no function
C32_WitnessEmptied ==
    /\ chat.pc = "tool"
    /\ chat.round = 1
    /\ chat.tools = <<ScheduleTool>>
    /\ chat.request.tools.present
    /\ service.tools = <<>>
    /\ completed # <<>>

\* -------------------------------------------------- tool schema conversion

\* the functions of the model request in progress
Functions == chat.request.tools.items
EmptyObjectSchema ==
    JObj(<< <<"type", JStr(<<"object">>)>>, <<"properties", JObj(<<>>)>> >>)
\* a member that is absent (or null) in the listing
IsAbsent(val) == val \in {Undefined, JNull}

\* C33: the function list of a model call has the length and the order of
\* the tool list read for that call: function i has type function, is named
\* after tool i, is described by the description of tool i, or by
\* "Tool: <name>" when that description is absent or empty, and carries the
\* input schema of tool i, or the empty-object schema when that is absent.
C33_FunctionsMirrorTools ==
    chat.pc = "model" =>
        /\ Len(Functions) = Len(chat.tools)
        /\ \A i \in 1..Len(chat.tools) :
             LET tool == chat.tools[i]
                 function == Functions[i].function
             IN /\ Functions[i].type = "function"
                /\ function.name = Get(tool, "name")
                /\ function.description =
                       IF IsAbsent(Get(tool, "description"))
                          \/ Get(tool, "description") = JStr(<<>>)
                       THEN JStr(<<"Tool: ">> \o Get(tool, "name").v)
                       ELSE Get(tool, "description")
                /\ function.parameters =
                       IF IsAbsent(Get(tool, "inputSchema"))
                       THEN EmptyObjectSchema
                       ELSE Get(tool, "inputSchema")

\* two tools, the first with an empty description and no schema, the second
\* with a description and a schema
C33_Witness ==
    /\ chat.pc = "model"
    /\ Len(chat.tools) = 2
    /\ Get(chat.tools[1], "description") = JStr(<<>>)
    /\ Get(chat.tools[1], "inputSchema") = Undefined
    /\ Truthy(Get(chat.tools[2], "description"))
    /\ Get(chat.tools[2], "inputSchema") = ResourceIdSchema
    /\ Functions[1].function.description = JStr(<<"Tool: ", "getResourceSchedule">>)
    /\ Functions[1].function.parameters = EmptyObjectSchema
    /\ Functions[2].function.name = JStr(<<"getJobs">>)
    /\ Functions[2].function.parameters = ResourceIdSchema

\* ---------------------------------------------------------- request headers

\* the values of a header of a fetch() call
HeaderValues(call, name) ==
    { call.headers[i][2] : i \in { j \in 1..Len(call.headers) :
                                     call.headers[j][1] = name } }
HasKeyHeader(call) == HeaderValues(call, "X-API-KEY") # {}
\* a non-empty API key
IsKey(apiKey) == apiKey.t = "str" /\ apiKey.v # <<>>
\* the fetch() call of a request is a POST of JSON to the URL of the client
PostsJson(call) ==
    /\ call.method = "POST"
    /\ call.url = client.serverUrl
    /\ HeaderValues(call, "Content-Type") = { <<"application/json">> }
\* the key header is there exactly for a non-empty key, and holds that key
KeyIffConfigured(call, apiKey) ==
    /\ HasKeyHeader(call) <=> IsKey(apiKey)
    /\ IsKey(apiKey) => HeaderValues(call, "X-API-KEY") = { apiKey.v }

\* C34: every request is an HTTP POST to the server URL of the client with
\* header Content-Type: application/json; it carries the X-API-KEY header if
\* and only if the client holds a non-empty API key when the request is
\* made. A session created with an empty MCP key sends no key header; a
\* session created with any other key, a whitespace-only one included,
\* sends that key in the header of every request it makes.
C34_PostWithKeyIffConfigured ==
    outbox # <<>> =>
        /\ PostsJson(outbox[1].call)
        /\ KeyIffConfigured(outbox[1].call, client.apiKey)
        /\ session.mcpClient =>
              /\ outbox[1].call.url = session.serverUrl
              /\ session.mcpApiKey = <<>> => ~HasKeyHeader(outbox[1].call)
              /\ session.mcpApiKey # <<>> =>
                    HeaderValues(outbox[1].call, "X-API-KEY")
                        = { session.mcpApiKey }
        \* the same request as a client holding any other key would make it
        /\ \A apiKey \in ApiKeys :
             KeyIffConfigured(
                 FetchCall([client EXCEPT !.apiKey = apiKey], outbox[1].id,
                           MethodOf(outbox[1].op), JObj(<<>>)), apiKey)

\* a session created with the key " " lists the tools: the request carries
\* the key header
C34_Witness ==
    /\ outbox # <<>>
    /\ outbox[1].op = "listTools"
    /\ session.mcpApiKey = <<SP>>
    /\ client.apiKey = JStr(<<SP>>)
    /\ HeaderValues(outbox[1].call, "X-API-KEY") = { <<SP>> }
    /\ outbox[1].call.method = "POST"

\* a session created with the empty key lists the tools: no key header
C34_WitnessEmptyKey ==
    /\ outbox # <<>>
    /\ outbox[1].op = "listTools"
    /\ session.mcpClient
    /\ session.mcpApiKey = <<>>
    /\ client.apiKey = JNull
    /\ ~HasKeyHeader(outbox[1].call)

\* C34 as stated: a session created with a blank MCP key sends no key header
C34_BlankSessionKeySendsNoHeader ==
    outbox # <<>> =>
        /\ PostsJson(outbox[1].call)
        /\ KeyIffConfigured(outbox[1].call, client.apiKey)
        /\ (session.mcpClient /\ Trim(session.mcpApiKey) = <<>>) =>
              ~HasKeyHeader(outbox[1].call)

\* ------------------------------------------------- content type and decoding

\* the Content-Type of the response names an SSE media type
NamesSSE(c) ==
    \E i \in 1..Len(c.resp.ctype) :
        c.resp.ctype[i] \in {"text/event-stream", "text/plain"}
\* the body holds a data line
IsFramed(c) == \E i \in 1..Len(LinesOf(c)) : IsDataLine(LinesOf(c)[i])
\* the text of the body read as an event stream
StreamText(c) ==
    Concat([i \in 1..Len(LinesOf(c)) |->
              IF IsDataLine(LinesOf(c)[i]) THEN DataContent(LinesOf(c)[i])
              ELSE IF IsSkippedLine(LinesOf(c)[i]) THEN <<>>
              ELSE LinesOf(c)[i]], 1)

\* C35: the body of a 2xx response is decoded as an event stream if and
\* only if its Content-Type contains text/event-stream or text/plain: with
\* such a type the text handed to the JSON parser is the text of the stream
\* (the data lines without their prefix), which differs from the body when
\* the body holds a data line; with any other type, or none, the text
\* handed to the parser is the body unchanged, also when the body is framed
\* as an event stream.
C35_SSEIffContentType ==
    (HasCompleted /\ Got2xx(Done)) =>
        /\ ~NamesSSE(Done) => Done.responseText = Done.resp.body
        /\ NamesSSE(Done) =>
              /\ Done.responseText =
                     (IF StreamText(Done) = <<>> THEN Done.resp.body
                      ELSE StreamText(Done))
              /\ IsFramed(Done) => Done.responseText # Done.resp.body
        /\ (Done.responseText # Done.resp.body) => NamesSSE(Done)

\* an event stream delivered as application/json: the raw body reaches the
\* parser, which fails on it; the result is found by the brace fallback
C35_Witness ==
    /\ HasCompleted
    /\ Got2xx(Done)
    /\ Done.resp.ctype = <<"application/json">>
    /\ IsFramed(Done)
    /\ StartsWith(Done.resp.body, EventPrefix)
    /\ Done.responseText = Done.resp.body
    /\ ~JSONParse(Done.responseText).ok
    /\ Done.request = Return(JNum("7"))

\* the same stream without a Content-Type
C35_WitnessNoType ==
    /\ HasCompleted
    /\ Got2xx(Done)
    /\ Done.resp.ctype = <<>>
    /\ IsFramed(Done)
    /\ Done.responseText = Done.resp.body

\* a text/plain body decoded as an event stream
C35_WitnessPlain ==
    /\ HasCompleted
    /\ Got2xx(Done)
    /\ Includes(Done.resp.ctype, "text/plain")
    /\ IsFramed(Done)
    /\ Done.responseText # Done.resp.body
    /\ JSONParse(Done.responseText).ok

\* ------------------------------------------------ non-function invocations

\* a reply of the model with a message is handled in this step; chat'.calls
\* is its tool_calls list
HandlesReply == chat.pc = "model" /\ chat' # chat /\ chat'.cause # "model"
\* the places of the entries of a tool_calls list that are of type function
FunctionPlaces(calls) ==
    { i \in 1..Len(calls.items) : calls.items[i].type = "function" }
OtherPlaces(calls) == (1..Len(calls.items)) \ FunctionPlaces(calls)
\* the ids recorded in a list of tool calls, and in a list of results
CallIds(toolCalls) == { toolCalls[k].id : k \in 1..Len(toolCalls) }
ResultIds(results) == { results[k].toolCallId : k \in 1..Len(results) }

\* C36: only entries of type function count as tool calls. A reply whose
\* tool_calls list is empty or holds only entries of another type sends no
\* request, appends nothing to the working history and makes chat() return
\* the reply's text as the final answer, without toolCalls; in a reply that
\* also holds function entries, requests are sent for function entries only,
\* and an entry of another type has no recorded call and no result, in the
\* round and in the assistant message appended for it.
C36_OnlyFunctionCallsCount ==
    [][ /\ (HandlesReply /\ chat'.calls.present
                         /\ FunctionPlaces(chat'.calls) = {}) =>
             /\ chat'.pc = "returned"
             /\ wire' = wire /\ outbox' = outbox /\ pending' = pending
             /\ chat'.messages = chat.messages
             /\ chat'.round = chat.round
             /\ chat'.toolCalls = <<>> /\ chat'.toolCallResults = <<>>
             /\ chat'.result =
                    << [role |-> "assistant", content |-> ReplyText,
                        toolCalls |-> Absent, toolCallResults |-> Absent] >>
        /\ (chat'.pc \in {"tool", "model", "returned"} /\ chat'.calls.present) =>
             /\ Len(chat'.toolCalls) <= Cardinality(FunctionPlaces(chat'.calls))
             /\ \A i \in OtherPlaces(chat'.calls) :
                  /\ chat'.calls.items[i].id \notin CallIds(chat'.toolCalls)
                  /\ chat'.calls.items[i].id \notin ResultIds(chat'.toolCallResults)
        /\ (chat'.pc = "tool" /\ Len(wire') > Len(wire)) =>
             /\ chat'.idx \in FunctionPlaces(chat'.calls)
             /\ Get(Get(JSONParse(outbox'[1].call.body).val, "params"), "name") =
                    JStr(<<chat'.calls.items[chat'.idx].function.name>>)
        /\ Recurses =>
             LET appended == chat'.messages[Len(chat'.messages)] IN
             /\ Len(appended.toolCalls.items)
                    = Cardinality(FunctionPlaces(chat'.calls))
             /\ \A i \in OtherPlaces(chat'.calls) :
                  /\ chat'.calls.items[i].id \notin CallIds(appended.toolCalls.items)
                  /\ chat'.calls.items[i].id
                        \notin ResultIds(appended.toolCallResults.items)
      ]_vars

\* a reply whose only invocation is not of type function: chat() has
\* returned its text, nothing was sent and the history is the caller's
C36_Witness ==
    /\ chat.pc = "returned"
    /\ chat.calls = Present(<<CustomCall>>)
    /\ chat.round = 1
    /\ wire = <<>>
    /\ chat.messages = chat.input
    /\ ~chat.result[1].toolCalls.present

\* a reply with an empty tool_calls list
C36_WitnessEmptyList ==
    /\ chat.pc = "returned"
    /\ chat.calls = Present(<<>>)
    /\ chat.round = 1
    /\ wire = <<>>
    /\ chat.messages = chat.input

\* a mixed reply: the function entry was executed and recorded, the other
\* entry was not
C36_WitnessMixed ==
    /\ chat.pc = "model"
    /\ chat.round = 2
    /\ chat.calls = Present(<<CustomCall, ScheduleCall>>)
    /\ Len(wire) = 1
    /\ CallIds(chat.messages[Len(chat.messages)].toolCalls.items) = {"call_1"}
    /\ ResultIds(chat.messages[Len(chat.messages)].toolCallResults.items)
           = {"call_1"}

\* ------------------------------------------------------ session initialize

\* a key with a character that is no whitespace
NonBlank(key) == \E i \in 1..Len(key) : ~IsWs(key[i])
\* handleSendMessage is called in this step
MessageSent == app'.submits = app.submits + 1 /\ ~app.chatLoading

====
